---- MODULE Spec2Model ----
(***************************************************************************)
(* Gravity Weaver (src/src/App.tsx): the simulation core of the App        *)
(* component as a state machine.                                           *)
(*                                                                         *)
(* React semantics modelled (React 18 root, production build):             *)
(*  - st is the committed React state; every handler commits the updates   *)
(*    it enqueues as one batch, functional updaters applied in order;      *)
(*  - ref holds the mutable refs.  The mirror refs (gameStateRef, ...) are *)
(*    written only by the passive effects of lines 462-475, which run      *)
(*    after the commit: effectsPending says a commit's effects have not    *)
(*    run yet.  A frame callback may run before them (it then reads the    *)
(*    mirrors of the commit before); React runs them before it renders     *)
(*    the callback's updates, so updater functions read refreshed mirrors. *)
(*                                                                         *)
(* Numbers: the code computes in IEEE doubles; the model computes in       *)
(* fixed point.  Lengths and velocities are in 1/1000 px, normalised dt    *)
(* and multipliers in 1/100, wall-clock time in 1/100 ms, phases in        *)
(* 0.005 rad, particle life and pulse in 1/1000.                           *)
(***************************************************************************)
EXTENDS Integers, Sequences, FiniteSets, TLC

(***************************************************************************)
(* Program constants (App.tsx 173-185)                                     *)
(***************************************************************************)
CANVAS_WIDTH == 400

CANVAS_HEIGHT == 600

BALL_RADIUS == 12

\* BASE_GRAVITY_FORCE = 0.4, in 1/1000 px per frame
BASE_GRAVITY_FORCE == 400

MAX_VELOCITY == 8

POWERUP_COLLECTION_RADIUS_SQUARED == 900

\* BOUNCE_DAMPING = 0.7, in 1/10
BOUNCE_DAMPING == 7

\* durations in ms
SHIELD_DURATION == 5000

SLOW_MOTION_DURATION == 3000

\* the event expiry of triggerRandomEvent, ms
EVENT_DURATION == 4000

\* the beat window of detectBeat, ms
BEAT_DURATION == 100

\* the refractory time of detectBeat (0.3 s), ms
BEAT_REFRACTORY == 300

\* the reference frame interval 16.66 ms, in 1/100 ms
FRAME_INTERVAL == 1666

\* the evaluation window of the adaptive spawn multiplier (2 s), ms
SCORE_EVAL_WINDOW == 2000

MAGNET_SCORE == 500

MAGNET_COMBO == 5

\* particles kept by createParticles: slice(-100)
MAX_PARTICLES == 100

\* 1 px in model units (1/1000 px)
PX == 10 * 100

\* 1 ms in model time units (1/100 ms)
MS == 10 * 10

\* Math.PI * 4, the pulse at which a collected power-up is purged, in 1/1000
PULSE_LIMIT == 12566

(***************************************************************************)
(* Arithmetic helpers                                                      *)
(***************************************************************************)
Abs(a) == IF a < 0 THEN -a ELSE a

Min(a, b) == IF a < b THEN a ELSE b

Max(a, b) == IF a > b THEN a ELSE b

\* a * b / c for fixed-point products, truncated towards zero, c > 0
MulDiv(a, b, c) == IF a * b >= 0 THEN (a * b) \div c ELSE -((-(a * b)) \div c)

\* a * b / c rounded to the nearest unit, as the rounding of a floating-point
\* product or quotient is; a, b >= 0, c > 0
MulDivRound(a, b, c) == (2 * a * b + c) \div (2 * c)

\* Math.round of a non-negative value in 1/100: halves round up
Round100(x) == (x + 50) \div 100

RECURSIVE SumSeq(_)
SumSeq(s) == IF s = <<>> THEN 0 ELSE Head(s) + SumSeq(Tail(s))

\* half a period (pi) and a period (2 pi) in phase units of 0.005 rad
PHASE_PI == 628

PHASE_2PI == 1256

\* Math.sin in 1/1000 of a phase in 0.005 rad (Bhaskara's rational form)
SinHalf(x) == (16 * x * (PHASE_PI - x) * 250) \div ((5 * PHASE_PI * PHASE_PI - 4 * x * (PHASE_PI - x)) \div 4)

Sin1000(phase) ==
  LET p == phase % PHASE_2PI
  IN IF p <= PHASE_PI THEN SinHalf(p) ELSE -SinHalf(p - PHASE_PI)

(***************************************************************************)
(* LEVELS (App.tsx 318-364): factors in 1/100, chances in 1/1000000        *)
(***************************************************************************)
LEVELS ==
  << [thresholdScore |-> 0, obstacleBaseChance |-> 10000, obstacleMax |-> 4,
      allowedObstacleTypes |-> <<"spinner", "wave">>,
      obstacleSpeedFactor |-> 100, powerUpChance |-> 10000, eventProbability |-> 500],
     [thresholdScore |-> 500, obstacleBaseChance |-> 15000, obstacleMax |-> 5,
      allowedObstacleTypes |-> <<"spinner", "wave", "crusher">>,
      obstacleSpeedFactor |-> 110, powerUpChance |-> 9000, eventProbability |-> 1000],
     [thresholdScore |-> 1500, obstacleBaseChance |-> 20000, obstacleMax |-> 6,
      allowedObstacleTypes |-> <<"spinner", "wave", "crusher", "portal">>,
      obstacleSpeedFactor |-> 125, powerUpChance |-> 8000, eventProbability |-> 2000],
     [thresholdScore |-> 3000, obstacleBaseChance |-> 25000, obstacleMax |-> 7,
      allowedObstacleTypes |-> <<"spinner", "wave", "crusher", "portal">>,
      obstacleSpeedFactor |-> 140, powerUpChance |-> 7000, eventProbability |-> 3000],
     [thresholdScore |-> 5000, obstacleBaseChance |-> 30000, obstacleMax |-> 8,
      allowedObstacleTypes |-> <<"spinner", "wave", "crusher", "portal">>,
      obstacleSpeedFactor |-> 160, powerUpChance |-> 6000, eventProbability |-> 5000] >>

\* LEVELS[i] with the code's zero-based index
Level(i) == LEVELS[i + 1]

(***************************************************************************)
(* PATTERNS (App.tsx 370-399)                                              *)
(***************************************************************************)
PATTERNS ==
  << << [dx |-> 0, dy |-> 0, type |-> "spinner"], [dx |-> -60, dy |-> -40, type |-> "spinner"],
        [dx |-> 120, dy |-> 80, type |-> "spinner"] >>,
     << [dx |-> 0, dy |-> 0, type |-> "wave"], [dx |-> 0, dy |-> -80, type |-> "crusher"],
        [dx |-> 80, dy |-> 0, type |-> "wave"] >>,
     << [dx |-> 0, dy |-> 0, type |-> "portal"], [dx |-> -100, dy |-> 50, type |-> "wave"],
        [dx |-> 100, dy |-> -50, type |-> "wave"] >>,
     << [dx |-> 0, dy |-> 0, type |-> "crusher"], [dx |-> -80, dy |-> 30, type |-> "crusher"],
        [dx |-> 80, dy |-> -30, type |-> "crusher"] >> >>

POSSIBLE_EVENTS == <<"storm", "fog", "invertShock">>

POWERUP_TYPES == <<"shield", "slow", "magnet">>

(***************************************************************************)
(* gameLoop, dt normalisation (App.tsx 955-957)                            *)
(***************************************************************************)
\* timeDelta in 1/100 ms: the time since prevTimeRef, or one reference frame
\* when prevTimeRef holds no timestamp
TimeDelta(prevTimeKnown, elapsed) == IF prevTimeKnown THEN elapsed ELSE FRAME_INTERVAL

\* a variant of the normalisation without the lower clamp
EffectiveDeltaRatioNoFloor(timeDelta) == Min(200, MulDiv(timeDelta, 100, FRAME_INTERVAL))

\* effectiveDeltaRatio in 1/100 from timeDelta in 1/100 ms
EffectiveDeltaRatio(timeDelta) == Min(200, Max(10, MulDiv(timeDelta, 100, FRAME_INTERVAL)))

\* a variant of the score increment that rounds every fraction up
ScoreIncrementCeil(dt) == (dt + 99) \div 100

\* Math.round(1 * effectiveDeltaRatio)
ScoreIncrement(dt) == Round100(dt)

(***************************************************************************)
(* gameLoop, physics integration and boundary handling (App.tsx 961-991)   *)
(***************************************************************************)
MaxVel(speedMultiplier) == (MAX_VELOCITY * PX * speedMultiplier) \div 100

\* a variant of the velocity integration without the clamp of lines 967-970
TentativeVelYUnclamped(velY, gravityDir, speedMultiplier, dt) ==
  velY + MulDiv(((BASE_GRAVITY_FORCE * speedMultiplier) \div 100) * gravityDir, dt, 100)

TentativeVelY(velY, gravityDir, speedMultiplier, dt) ==
  LET gravityForce == (BASE_GRAVITY_FORCE * speedMultiplier) \div 100
      v == velY + MulDiv(gravityForce * gravityDir, dt, 100)
  IN Max(-MaxVel(speedMultiplier), Min(MaxVel(speedMultiplier), v))

\* a variant of the boundary handling whose bounce forgets setGravityDir
BoundaryHandlingNoFlip(posY, velY) ==
  IF posY - BALL_RADIUS * PX <= 0 /\ velY < 0
  THEN [bounce |-> "top", posY |-> BALL_RADIUS * PX,
        velY |-> MulDiv(-velY, BOUNCE_DAMPING, 10), flips |-> 0]
  ELSE IF posY + BALL_RADIUS * PX >= CANVAS_HEIGHT * PX /\ velY > 0
  THEN [bounce |-> "bottom", posY |-> (CANVAS_HEIGHT - BALL_RADIUS) * PX,
        velY |-> MulDiv(-velY, BOUNCE_DAMPING, 10), flips |-> 0]
  ELSE [bounce |-> "none", posY |-> posY, velY |-> velY, flips |-> 0]

\* a variant of the boundary handling whose bounce leaves the position alone
BoundaryHandlingNoClamp(posY, velY) ==
  IF posY - BALL_RADIUS * PX <= 0 /\ velY < 0
  THEN [bounce |-> "top", posY |-> posY,
        velY |-> MulDiv(-velY, BOUNCE_DAMPING, 10), flips |-> 1]
  ELSE IF posY + BALL_RADIUS * PX >= CANVAS_HEIGHT * PX /\ velY > 0
  THEN [bounce |-> "bottom", posY |-> posY,
        velY |-> MulDiv(-velY, BOUNCE_DAMPING, 10), flips |-> 1]
  ELSE [bounce |-> "none", posY |-> posY, velY |-> velY, flips |-> 0]

\* the if / else-if of lines 974-988: the branch taken, the position and the
\* velocity after it, and the number of setGravityDir(prev => -prev) calls
BoundaryHandling(posY, velY) ==
  IF posY - BALL_RADIUS * PX <= 0 /\ velY < 0
  THEN [bounce |-> "top", posY |-> BALL_RADIUS * PX,
        velY |-> MulDiv(-velY, BOUNCE_DAMPING, 10), flips |-> 1]
  ELSE IF posY + BALL_RADIUS * PX >= CANVAS_HEIGHT * PX /\ velY > 0
  THEN [bounce |-> "bottom", posY |-> (CANVAS_HEIGHT - BALL_RADIUS) * PX,
        velY |-> MulDiv(-velY, BOUNCE_DAMPING, 10), flips |-> 1]
  ELSE [bounce |-> "none", posY |-> posY, velY |-> velY, flips |-> 0]

Integrate(posY, velY, gravityDir, speedMultiplier, dt) ==
  LET v == TentativeVelY(velY, gravityDir, speedMultiplier, dt)
  IN BoundaryHandling(posY + MulDiv(v, dt, 100), v)

(***************************************************************************)
(* checkObstacleCollisions (App.tsx 800-833)                               *)
(***************************************************************************)
\* a variant of the collision handling that returns to the menu
NextGameStateMenu(gameState, collidedWithObstacle) ==
  IF collidedWithObstacle THEN "menu" ELSE gameState

\* if (collidedWithObstacle) setGameState('gameOver') (App.tsx 1075-1076)
NextGameState(gameState, collidedWithObstacle) ==
  IF collidedWithObstacle THEN "gameOver" ELSE gameState

\* a variant of the test that stops at the bounding boxes
ObstacleHitBoxOnly(ballCurrentPos, obs, invulnerable) ==
  LET halfW == obs.width \div 2
      halfH == obs.height \div 2
  IN /\ ~ \/ ballCurrentPos.x + BALL_RADIUS * PX < obs.position.x - halfW
          \/ ballCurrentPos.x - BALL_RADIUS * PX > obs.position.x + halfW
          \/ ballCurrentPos.y + BALL_RADIUS * PX < obs.position.y - halfH
          \/ ballCurrentPos.y - BALL_RADIUS * PX > obs.position.y + halfH
     /\ ~invulnerable

\* the body of the loop of checkObstacleCollisions (App.tsx 803-828)
ObstacleHit(ballCurrentPos, obs, invulnerable) ==
  LET halfW == obs.width \div 2
      halfH == obs.height \div 2
      obsLeft == obs.position.x - halfW
      obsRight == obs.position.x + halfW
      obsTop == obs.position.y - halfH
      obsBottom == obs.position.y + halfH
      closestX == Max(obsLeft, Min(ballCurrentPos.x, obsRight))
      closestY == Max(obsTop, Min(ballCurrentPos.y, obsBottom))
      dx == ballCurrentPos.x - closestX
      dy == ballCurrentPos.y - closestY
  IN /\ ~ \/ ballCurrentPos.x + BALL_RADIUS * PX < obsLeft
          \/ ballCurrentPos.x - BALL_RADIUS * PX > obsRight
          \/ ballCurrentPos.y + BALL_RADIUS * PX < obsTop
          \/ ballCurrentPos.y - BALL_RADIUS * PX > obsBottom
     /\ dx * dx + dy * dy < BALL_RADIUS * BALL_RADIUS * PX * PX
     /\ ~invulnerable

checkObstacleCollisions(ballCurrentPos, obstaclesRef, invulnerableRef) ==
  \E i \in 1..Len(obstaclesRef) : ObstacleHit(ballCurrentPos, obstaclesRef[i], invulnerableRef)

(***************************************************************************)
(* gameLoop, obstacle advance and prune (App.tsx 1002-1020)                *)
(***************************************************************************)
\* a variant of the event multiplier that every kind of event raises
StormFactorAnyKind(isEventActive, activeEventType) ==
  IF isEventActive THEN 12 ELSE 10

\* isEventActiveRef.current && activeEventTypeRef.current === 'storm' ? 1.2 : 1
StormFactor(isEventActive, activeEventType) ==
  IF isEventActive /\ activeEventType = "storm" THEN 12 ELSE 10

BeatFactor(beatActive) == IF beatActive THEN 13 ELSE 10

AdvanceObstacle(obs, dt, speedMultiplierEvent, speedMultiplierBeat) ==
  LET step == MulDiv(MulDiv(MulDiv(obs.speed, speedMultiplierEvent, 10),
                            speedMultiplierBeat, 10), dt, 100)
      phase == (obs.phase + (IF obs.type = "crusher" THEN 2 ELSE 1) * (dt \div 10)) % PHASE_2PI
      x == obs.position.x - step
  IN CASE obs.type = "wave" ->
            [obs EXCEPT !.position = [x |-> x, y |-> obs.position.y + MulDiv(Sin1000(phase) * 15, dt, 1000)],
                        !.phase = phase]
       [] obs.type = "crusher" ->
            [obs EXCEPT !.position = [x |-> x, y |-> obs.position.y], !.phase = phase,
                        !.height = 150 * PX + Abs(Sin1000(phase)) * 100]
       [] OTHER ->
            [obs EXCEPT !.position = [x |-> x, y |-> obs.position.y], !.phase = phase]

AdvanceObstacles(obstacles, dt, ev, beat) ==
  [i \in 1..Len(obstacles) |-> AdvanceObstacle(obstacles[i], dt, ev, beat)]

\* a variant of the filter that never removes an obstacle
ObstacleOnScreenAlways(obs) == obs.position.x > -150 * PX \/ obs.speed > 0

ObstacleOnScreen(obs) == obs.position.x > -150 * PX

PruneObstacles(obstacles) == SelectSeq(obstacles, ObstacleOnScreen)

(***************************************************************************)
(* gameLoop, power-up advance and prune (App.tsx 1022-1031)                *)
(***************************************************************************)
AdvancePowerUp(p, dt) ==
  [p EXCEPT !.position = [x |-> p.position.x - 25 * dt, y |-> p.position.y],
            !.pulse = p.pulse + MulDiv(3, dt, 2)]

\* a variant of the two filters that never removes a power-up
PowerUpKeptAlways(p) == p.position.x > -80 * PX \/ p.collected \/ p.pulse >= 0

PowerUpKept(p) ==
  /\ (p.position.x > -80 * PX \/ p.collected)
  /\ (~p.collected \/ p.pulse < PULSE_LIMIT)

AdvancePowerUps(powerUps, dt) ==
  SelectSeq([i \in 1..Len(powerUps) |-> AdvancePowerUp(powerUps[i], dt)], PowerUpKept)

(***************************************************************************)
(* createParticles (App.tsx 565-590) and particle decay (1033-1045).       *)
(* A burst is the particles of one createParticles call; their positions,  *)
(* velocities and sizes are cosmetic and left out.                         *)
(***************************************************************************)
ParticleCount(particles) == SumSeq([i \in 1..Len(particles) |-> particles[i].count])

\* [...prev, ...newParticles].slice(-100): the oldest particles go first
RECURSIVE SliceLast(_)
SliceLast(particles) ==
  IF ParticleCount(particles) <= MAX_PARTICLES THEN particles
  ELSE LET over == ParticleCount(particles) - MAX_PARTICLES
       IN IF Head(particles).count <= over THEN SliceLast(Tail(particles))
          ELSE <<[Head(particles) EXCEPT !.count = @ - over]>> \o Tail(particles)

createParticles(particles, count, color) ==
  SliceLast(Append(particles, [count |-> count, life |-> 1000, color |-> color]))

ParticleAlive(p) == p.life > 0

DecayParticles(particles, dt) ==
  SelectSeq([i \in 1..Len(particles) |-> [particles[i] EXCEPT !.life = @ - dt \div 5]], ParticleAlive)

(***************************************************************************)
(* generateObstacle, generateObstaclePattern, generatePowerUp              *)
(* (App.tsx 487-563).  Every Math.random() draw is a parameter r in        *)
(* 0..999 (thousandths); ids are numbers instead of random strings.        *)
(***************************************************************************)
ObstacleWidth(type) == IF type = "portal" THEN 50 * PX ELSE IF type = "crusher" THEN 30 * PX ELSE 40 * PX

ObstacleHeight(type) == IF type = "portal" THEN 50 * PX ELSE IF type = "crusher" THEN 180 * PX ELSE 70 * PX

\* (baseSpeed + Math.random() * 2 + score / 5000) * factor * storm * beat
ObstacleSpeed(levelIndex, score, ev, beat, rSpeed) ==
  MulDiv(MulDiv(MulDiv(2500 + 2 * rSpeed + (score * PX) \div 5000,
                       Level(levelIndex).obstacleSpeedFactor, 100), ev, 10), beat, 10)

IsAllowed(levelIndex, type) ==
  \E k \in 1..Len(Level(levelIndex).allowedObstacleTypes) : Level(levelIndex).allowedObstacleTypes[k] = type

generateObstacle(id, levelIndex, score, ev, beat, rType, rSpeed, rY, rPhase) ==
  LET types == Level(levelIndex).allowedObstacleTypes
      type == types[(rType * Len(types)) \div 1000 + 1]
  IN [id |-> id, type |-> type,
      position |-> [x |-> (CANVAS_WIDTH + 60) * PX, y |-> rY * (CANVAS_HEIGHT - 250) + 125 * PX],
      width |-> ObstacleWidth(type), height |-> ObstacleHeight(type),
      speed |-> ObstacleSpeed(levelIndex, score, ev, beat, rSpeed),
      phase |-> (rPhase * PHASE_2PI) \div 1000]

PatternSlot(id, offset, levelIndex, score, ev, beat, rSpeed, rPhase) ==
  LET type == IF IsAllowed(levelIndex, offset.type) THEN offset.type
              ELSE Level(levelIndex).allowedObstacleTypes[1]
  IN [id |-> id, type |-> type,
      position |-> [x |-> (CANVAS_WIDTH + 60 + offset.dx) * PX,
                    y |-> Min(Max(offset.dy + CANVAS_HEIGHT \div 2, 50), CANVAS_HEIGHT - 50) * PX],
      width |-> ObstacleWidth(type), height |-> ObstacleHeight(type),
      speed |-> ObstacleSpeed(levelIndex, score, ev, beat, rSpeed),
      phase |-> (rPhase * PHASE_2PI) \div 1000]

generateObstaclePattern(id, levelIndex, score, ev, beat, rPattern, rSpeed, rPhase) ==
  LET pattern == PATTERNS[(rPattern * Len(PATTERNS)) \div 1000 + 1]
  IN [k \in 1..Len(pattern) |->
        PatternSlot(id + k - 1, pattern[k], levelIndex, score, ev, beat, rSpeed, rPhase)]

generatePowerUp(id, rType, rY) ==
  [id |-> id, type |-> POWERUP_TYPES[(rType * Len(POWERUP_TYPES)) \div 1000 + 1],
   position |-> [x |-> (CANVAS_WIDTH + 40) * PX, y |-> rY * (CANVAS_HEIGHT - 150) + 75 * PX],
   collected |-> FALSE, pulse |-> 0]

(***************************************************************************)
(* collectPowerUps (App.tsx 835-883): the updater passed to setPowerUps    *)
(***************************************************************************)
\* distanceSquared < POWERUP_COLLECTION_RADIUS_SQUARED; the two bounds on
\* |dx| and |dy| follow from it and keep the squares within TLC's integers
WithinPickupRadius(ballPos, p) ==
  LET dx == ballPos.x - p.position.x
      dy == ballPos.y - p.position.y
  IN /\ Abs(dx) < 30 * PX
     /\ Abs(dy) < 30 * PX
     /\ dx * dx + dy * dy < POWERUP_COLLECTION_RADIUS_SQUARED * PX * PX

\* if (p.collected) continue; ... if (distanceSquared < ...) (App.tsx 841-848)
PickedUp(ballPos, p) == ~p.collected /\ WithinPickupRadius(ballPos, p)

PowerUpStays(p) == ~p.collected \/ p.position.x > -50 * PX

\* a variant of the updater whose magnet case grants nothing
collectPowerUpsNoBonus(prevPowerUps, ballPos) ==
  LET hit(i) == PickedUp(ballPos, prevPowerUps[i])
      newPowerUps == [i \in 1..Len(prevPowerUps) |->
                        IF hit(i) THEN [prevPowerUps[i] EXCEPT !.collected = TRUE]
                        ELSE prevPowerUps[i]]
      changed == \E i \in 1..Len(prevPowerUps) : hit(i)
      n(type) == Cardinality({i \in 1..Len(prevPowerUps) : hit(i) /\ prevPowerUps[i].type = type})
  IN [powerUps |-> IF changed THEN SelectSeq(newPowerUps, PowerUpStays) ELSE prevPowerUps,
      shield |-> n("shield"), slow |-> n("slow"), magnet |-> 0]

\* a variant of the updater whose magnet case falls through to the shield case
collectPowerUpsFallThrough(prevPowerUps, ballPos) ==
  LET hit(i) == PickedUp(ballPos, prevPowerUps[i])
      newPowerUps == [i \in 1..Len(prevPowerUps) |->
                        IF hit(i) THEN [prevPowerUps[i] EXCEPT !.collected = TRUE]
                        ELSE prevPowerUps[i]]
      changed == \E i \in 1..Len(prevPowerUps) : hit(i)
      n(type) == Cardinality({i \in 1..Len(prevPowerUps) : hit(i) /\ prevPowerUps[i].type = type})
  IN [powerUps |-> IF changed THEN SelectSeq(newPowerUps, PowerUpStays) ELSE prevPowerUps,
      shield |-> n("shield") + n("magnet"), slow |-> n("slow"), magnet |-> n("magnet")]

\* the power-ups after the updater, and how many of each kind were picked up
collectPowerUps(prevPowerUps, ballPos) ==
  LET hit(i) == PickedUp(ballPos, prevPowerUps[i])
      newPowerUps == [i \in 1..Len(prevPowerUps) |->
                        IF hit(i) THEN [prevPowerUps[i] EXCEPT !.collected = TRUE]
                        ELSE prevPowerUps[i]]
      changed == \E i \in 1..Len(prevPowerUps) : hit(i)
      n(type) == Cardinality({i \in 1..Len(prevPowerUps) : hit(i) /\ prevPowerUps[i].type = type})
  IN [powerUps |-> IF changed THEN SelectSeq(newPowerUps, PowerUpStays) ELSE prevPowerUps,
      shield |-> n("shield"), slow |-> n("slow"), magnet |-> n("magnet")]

\* setObstacles(obs => obs.map(o => ({...o, speed: o.speed * 0.6}))), n times
RECURSIVE SlowObstacles(_, _)
SlowObstacles(obstacles, n) ==
  IF n = 0 THEN obstacles
  ELSE SlowObstacles([i \in 1..Len(obstacles) |-> [obstacles[i] EXCEPT !.speed = MulDivRound(@, 6, 10)]], n - 1)

\* a variant of the slow timer's callback that damps again instead of restoring
RestoreObstaclesDamped(obstacles) ==
  [i \in 1..Len(obstacles) |-> [obstacles[i] EXCEPT !.speed = MulDivRound(@, 6, 10)]]

\* the slow timer's callback: speed: o.speed / 0.6
RestoreObstacles(obstacles) ==
  [i \in 1..Len(obstacles) |-> [obstacles[i] EXCEPT !.speed = MulDivRound(@, 10, 6)]]

RECURSIVE AddBursts(_, _, _, _)
AddBursts(particles, n, count, color) ==
  IF n = 0 THEN particles ELSE AddBursts(createParticles(particles, count, color), n - 1, count, color)

(***************************************************************************)
(* State                                                                   *)
(***************************************************************************)
VARIABLES
  st,              \* the committed React state (useState, App.tsx 407-435)
  ref,             \* the refs (useRef, App.tsx 432-460)
  effectsPending,  \* a commit's passive effects have not run yet
  timeouts,        \* pending setTimeout callbacks, time left in 1/100 ms
  clock,           \* wall-clock time since prevTimeRef, lastScoreTimeRef, lastBeatRef,
                   \* and since the last shield pickup and event trigger
  raf,             \* pending requestAnimationFrame(gameLoop) callbacks; stale: the
                   \* loop effect has not run yet for the gameLoop of the last render
  budget,          \* what the behaviour has used of the model's bounds
  hist,            \* what the current run has emitted, recorded and armed so far, and the
                   \* time the ticks have simulated since each timed effect began
  last             \* what the last step did

vars == <<st, ref, effectsPending, timeouts, clock, raf, budget, hist, last>>

(***************************************************************************)
(* Bounds of the model                                                     *)
(***************************************************************************)
\* The length of a behaviour, in units of what the environment does: a frame
\* that runs the tick body, a player input and a long wait cost one unit
\* each, and so does a change of the auth state; a frame costs one more for a
\* Math.random() test that comes out below its chance, and one more when it
\* comes less than a reference frame after the previous one.
MaxCost == 4

\* a wait longer than every timer of the program, ms
LongWait == SHIELD_DURATION + 1000

\* the elapsed times the driver lets pass in one step, 1/100 ms: one reference
\* frame, a long wait
ElapseSamples == {FRAME_INTERVAL, LongWait * MS}

\* Math.random() samples, in thousandths
RandSamples == {0, 700}

\* times from lastScoreTimeRef are tracked up to the long wait
ClockCap == LongWait * MS

(***************************************************************************)
(* The mirror effects (App.tsx 462-475)                                    *)
(***************************************************************************)
SyncRefs(s, r) ==
  [r EXCEPT !.gameState = s.gameState, !.ballPos = s.ballPos, !.ballVel = s.ballVel,
            !.gravityDir = s.gravityDir, !.score = s.score,
            !.currentLevelIndex = s.currentLevelIndex, !.obstacles = s.obstacles,
            !.powerUps = s.powerUps, !.invulnerable = s.invulnerable,
            !.isEventActive = s.isEventActive, !.activeEventType = s.activeEventType,
            !.speedMultiplier = s.speedMultiplier, !.beatActive = s.beatActive,
            !.spawnMultiplier = s.spawnMultiplier]

(***************************************************************************)
(* Adaptive spawn multiplier effect (App.tsx 885-902), deps [score]        *)
(***************************************************************************)
\* a variant of the effect without the test of the elapsed time
SpawnMultiplierEffectAnyTime(score, lastScore, elapsed) ==
  IF (score - lastScore) * 1000 * MS > 15 * elapsed THEN "up"
  ELSE IF (score - lastScore) * 1000 * MS < 5 * elapsed THEN "down"
  ELSE "none"

\* "up", "down" or "none": the setSpawnMultiplier call of the effect
SpawnMultiplierEffect(score, lastScore, elapsed) ==
  IF elapsed >= SCORE_EVAL_WINDOW * MS
  THEN IF (score - lastScore) * 1000 * MS > 15 * elapsed THEN "up"
       ELSE IF (score - lastScore) * 1000 * MS < 5 * elapsed THEN "down"
       ELSE "none"
  ELSE "none"

AdjustSpawnMultiplier(m, dir) ==
  IF dir = "up" THEN Min(150, m + 5) ELSE IF dir = "down" THEN Max(80, m - 5) ELSE m

(***************************************************************************)
(* Level-advance effect (App.tsx 904-917), deps [score, currentLevelIndex] *)
(***************************************************************************)
\* a variant of the effect that falls back a tier when the next threshold is
\* not reached
LevelAdvanceDown(score, currentLevelIndex) ==
  LET nextLevelIndex == currentLevelIndex + 1
  IN IF nextLevelIndex < Len(LEVELS) /\ score >= Level(nextLevelIndex).thresholdScore
     THEN nextLevelIndex
     ELSE IF currentLevelIndex > 0 THEN currentLevelIndex - 1 ELSE -1

\* a variant of the effect that tests the threshold of the current tier
LevelAdvanceAgain(score, currentLevelIndex) ==
  LET nextLevelIndex == currentLevelIndex + 1
  IN IF nextLevelIndex < Len(LEVELS) /\ score >= Level(nextLevelIndex).thresholdScore
     THEN nextLevelIndex
     ELSE IF currentLevelIndex > 0 /\ score >= Level(currentLevelIndex).thresholdScore
     THEN currentLevelIndex ELSE -1

\* the argument of setCurrentLevelIndex, or -1 when the effect does not call it
LevelAdvance(score, currentLevelIndex) ==
  LET nextLevelIndex == currentLevelIndex + 1
  IN IF nextLevelIndex < Len(LEVELS) /\ score >= Level(nextLevelIndex).thresholdScore
     THEN nextLevelIndex ELSE -1

(***************************************************************************)
(* Loop start/stop effect (App.tsx 1110-1124), deps [gameState, gameLoop]  *)
(***************************************************************************)
\* a variant of the effect without its cancelAnimationFrame calls
LoopEffectNoCancel(gameState, rf) ==
  IF gameState = "playing"
  THEN [tracked |-> TRUE, leaked |-> rf.leaked + (IF rf.tracked THEN 1 ELSE 0), stale |-> FALSE]
  ELSE [rf EXCEPT !.stale = FALSE]

\* cleanup: cancelAnimationFrame(requestRef.current); body: request or cancel
LoopEffect(gameState, rf) ==
  IF gameState = "playing" THEN [rf EXCEPT !.tracked = TRUE, !.stale = FALSE]
  ELSE [rf EXCEPT !.tracked = FALSE, !.stale = FALSE]

(***************************************************************************)
(* One flush of the passive effects of the commit s, with the refs r as    *)
(* the previous flush left them: every effect whose dependencies changed   *)
(* runs.  level / mult / burst are the state updates the effects enqueue.  *)
(***************************************************************************)
Effects(s, r, c, rf) ==
  LET scoreChanged == s.score # r.score
      levelRuns == scoreChanged \/ s.currentLevelIndex # r.currentLevelIndex
      loopRuns == s.gameState # r.gameState \/ rf.stale
      evaluated == scoreChanged /\ c.sinceScore >= SCORE_EVAL_WINDOW * MS
      level == IF levelRuns THEN LevelAdvance(s.score, s.currentLevelIndex) ELSE -1
  IN [ref |-> [SyncRefs(s, r) EXCEPT !.lastScore = IF evaluated THEN s.score ELSE @],
      clock |-> [c EXCEPT !.sinceScore = IF evaluated THEN 0 ELSE @,
                          !.sincePrev = IF loopRuns /\ s.gameState = "playing" THEN 0 ELSE @],
      raf |-> IF loopRuns THEN LoopEffect(s.gameState, rf) ELSE rf,
      level |-> level, scored |-> scoreChanged,
      evalAfter |-> IF evaluated THEN c.sinceScore ELSE -1,
      mult |-> IF scoreChanged THEN SpawnMultiplierEffect(s.score, r.lastScore, c.sinceScore) ELSE "none"]

\* no flush: nothing pending
NoEffects(r, c, rf) ==
  [ref |-> r, clock |-> c, raf |-> rf, level |-> -1, scored |-> FALSE, evalAfter |-> -1, mult |-> "none"]

PendingEffects(s, r, c, rf) == IF effectsPending THEN Effects(s, r, c, rf) ELSE NoEffects(r, c, rf)

\* the state updates enqueued by a flush, applied by the render that follows
ApplyEffectUpdates(s, e) ==
  [s EXCEPT !.currentLevelIndex = IF e.level >= 0 THEN e.level ELSE @,
            !.spawnMultiplier = AdjustSpawnMultiplier(@, e.mult),
            !.particles = IF e.level >= 0 THEN createParticles(@, 30, "gold") ELSE @]

LevelAdvances(h, e) == IF e.level >= 0 THEN [h EXCEPT !.advances = Append(@, e.level)] ELSE h

(***************************************************************************)
(* Initial states                                                          *)
(***************************************************************************)
\* the state of the component after construction and mount (App.tsx 407-475)
FreshState ==
  [gameState |-> "menu", score |-> 0, combo |-> 0, currentLevelIndex |-> 0,
   speedMultiplier |-> 100, ballPos |-> [x |-> 100 * PX, y |-> (CANVAS_HEIGHT \div 2) * PX],
   ballVel |-> [x |-> 0, y |-> 0], gravityDir |-> 1, obstacles |-> <<>>, powerUps |-> <<>>,
   particles |-> <<>>, invulnerable |-> FALSE, isEventActive |-> FALSE,
   activeEventType |-> "null", spawnMultiplier |-> 100, beatActive |-> FALSE]

MirrorOf(s) ==
  [gameState |-> s.gameState, ballPos |-> s.ballPos, ballVel |-> s.ballVel,
   gravityDir |-> s.gravityDir, score |-> s.score, currentLevelIndex |-> s.currentLevelIndex,
   obstacles |-> s.obstacles, powerUps |-> s.powerUps, invulnerable |-> s.invulnerable,
   isEventActive |-> s.isEventActive, activeEventType |-> s.activeEventType,
   speedMultiplier |-> s.speedMultiplier, beatActive |-> s.beatActive,
   spawnMultiplier |-> s.spawnMultiplier, lastScore |-> s.score]

NoStep ==
  [op |-> "init", ran |-> FALSE, timeDelta |-> 0, dt |-> 0, bounce |-> "none", flips |-> 0, collided |-> FALSE,
   overlap |-> FALSE, pickupPos |-> [x |-> 0, y |-> 0], scored |-> FALSE, shield |-> 0, slow |-> 0, magnet |-> 0, triggered |-> "none", level |-> -1,
   submitted |-> -1, flushed |-> FALSE, prevBounce |-> "none",
   read |-> [y |-> 0, v |-> 0, g |-> 1, sm |-> 100], evalAfter |-> -1]

\* the tier whose threshold the score has reached: what the level-advance
\* effect has settled on after a run's score grew to `score` a tick at a time
RECURSIVE SettledLevel(_, _)
SettledLevel(score, i) ==
  IF LevelAdvance(score, i) = -1 THEN i ELSE SettledLevel(score, i + 1)

Obstacle(id, type, x, y, speed, phase) ==
  [id |-> id, type |-> type, position |-> [x |-> x, y |-> y], width |-> ObstacleWidth(type),
   height |-> ObstacleHeight(type), speed |-> speed, phase |-> phase]

PowerUp(id, type, x, y, pulse) ==
  [id |-> id, type |-> type, position |-> [x |-> x, y |-> y], collected |-> FALSE, pulse |-> pulse]

\* a body falling at full speed through the start height
Falling == [y |-> 300 * PX, v |-> MaxVel(100), g |-> 1]

\* a spinner spawned at tier 0 with the score at 120, whose left edge is a
\* tenth of a pixel from the body: the next tick moves it into the body
NearSpinner == Obstacle(1, "spinner", 132100, 300 * PX, ObstacleSpeed(0, 120, 10, 10, 0), 0)

\* the same spinner a pixel further left: it was clear of the body one tick
\* ago and the next tick finds it overlapping the body
HitSpinner == Obstacle(1, "spinner", 131 * PX, 300 * PX, ObstacleSpeed(0, 120, 10, 10, 0), 0)

\* a power-up that has drifted from its spawn column to x: every tick moves it
\* 2.5 * dt left and adds 0.15 * dt to its pulse, which started at 0.  At the
\* x used for pickups it was out of the pickup radius of the body one tick
\* ago (the body 8 px higher) and is in reach of it in the next tick
NearPowerUp(id, type, x, y) == PowerUp(id, type, x, y, (3 * ((CANVAS_WIDTH + 40) * PX - x)) \div 50)

\* a spinner and an uncollected power-up that the next ticks move across
\* their left cutoffs
LeavingSpinner == Obstacle(2, "spinner", -149700, 500 * PX, ObstacleSpeed(0, 120, 10, 10, 0), 0)

LeavingPowerUp == NearPowerUp(2, "magnet", -79800, 500 * PX)

\* a power-up half way across the field, out of reach of the body
FarPowerUp == NearPowerUp(1, "shield", 300 * PX, 500 * PX)

TwoMagnets == <<NearPowerUp(1, "magnet", 128 * PX, 305 * PX), NearPowerUp(2, "magnet", 127500, 306 * PX)>>

\* power-up sets of a run in progress: none; one of a kind in reach of the
\* body; two magnets in reach
PowerUpSamples ==
  { <<>>, <<NearPowerUp(1, "magnet", 128 * PX, 305 * PX)>>, <<NearPowerUp(1, "shield", 128 * PX, 305 * PX)>>,
    <<NearPowerUp(1, "slow", 128 * PX, 305 * PX)>>, TwoMagnets }

\* a run in progress, between two frames, all effects flushed
MidRun(sm, ball, score, obstacles, powerUps) ==
  [FreshState EXCEPT !.gameState = "playing", !.score = score, !.combo = score,
                     !.currentLevelIndex = SettledLevel(score, 0), !.speedMultiplier = sm,
                     !.ballPos = [x |-> 100 * PX, y |-> ball.y], !.ballVel = [x |-> 0, y |-> ball.v],
                     !.gravityDir = ball.g, !.obstacles = obstacles, !.powerUps = powerUps]

\* runs in progress: the body about to hit a boundary at full speed, at the
\* lowest and at the highest speed scale, with an obstacle or a power-up
\* about to leave the field; a spinner and a power-up reaching
\* the body; the score one tick below the threshold of tier 1 with two
\* magnets in reach, without an obstacle and with a spinner that hits the
\* body in the same tick
Scenarios ==
  { MidRun(80, [y |-> 15 * PX, v |-> -MaxVel(80), g |-> -1], 120, <<LeavingSpinner>>, <<FarPowerUp>>),
    MidRun(150, [y |-> 585 * PX, v |-> MaxVel(150), g |-> 1], 120, <<>>, <<LeavingPowerUp>>),
    MidRun(100, Falling, 499, <<>>, TwoMagnets),
    MidRun(100, Falling, 499, <<HitSpinner>>, TwoMagnets) }
  \cup
  { MidRun(100, Falling, 120, <<NearSpinner>>, powerUps) : powerUps \in PowerUpSamples }

\* no timer pending; no shield pickup and no event trigger in the recent past
NoTimeouts == [shield |-> -1, slow |-> -1, event |-> <<>>, beat |-> <<>>]

StartClock ==
  [sincePrev |-> 0, sinceScore |-> 0, sinceBeat |-> BEAT_REFRACTORY * MS + 1,
   sinceShield |-> SHIELD_DURATION * MS, sinceEvent |-> EVENT_DURATION * MS]

\* a run that startGame has just started, 2000 ms after a tick of the run
\* before triggered an event: startGame does not clear the expiry timer of
\* triggerRandomEvent
Restarted ==
  [st |-> [FreshState EXCEPT !.gameState = "playing",
                             !.obstacles = <<generateObstacle(1, 0, 0, 10, 10, 0, 0, 0, 0)>>],
   timeouts |-> [NoTimeouts EXCEPT !.event = <<(EVENT_DURATION - 2000) * MS>>],
   clock |-> [StartClock EXCEPT !.sinceEvent = 2000 * MS],
   slowed |-> <<>>]

\* a run whose body picked a shield up 4000 ms ago and is about to pick up
\* the next one
Reshielding ==
  [st |-> [MidRun(100, Falling, 120, <<>>, <<NearPowerUp(1, "shield", 128 * PX, 305 * PX)>>)
             EXCEPT !.invulnerable = TRUE],
   timeouts |-> [NoTimeouts EXCEPT !.shield = (SHIELD_DURATION - 4000) * MS],
   clock |-> [StartClock EXCEPT !.sinceShield = 4000 * MS],
   slowed |-> <<>>]

\* a run whose body picked a slow up 2000 ms ago, which damped the one live
\* obstacle (slowed: its speed before the pickup), and is about to pick up
\* the next one
Reslowing ==
  [st |-> MidRun(100, Falling, 120,
                 <<Obstacle(1, "spinner", 300 * PX, 500 * PX,
                            MulDivRound(ObstacleSpeed(0, 120, 10, 10, 0), 6, 10), 0)>>,
                 <<NearPowerUp(1, "slow", 128 * PX, 305 * PX)>>),
   timeouts |-> [NoTimeouts EXCEPT !.slow = (SLOW_MOTION_DURATION - 2000) * MS],
   clock |-> StartClock,
   slowed |-> <<[id |-> 1, speed |-> ObstacleSpeed(0, 120, 10, 10, 0)]>>]

InitialStates ==
  {[st |-> s, timeouts |-> NoTimeouts, clock |-> StartClock, slowed |-> <<>>] : s \in {FreshState} \cup Scenarios}
    \cup {Restarted, Reshielding, Reslowing}

Init ==
  /\ \E s \in InitialStates :
       /\ st = s.st /\ timeouts = s.timeouts /\ clock = s.clock
       /\ hist = [advances |-> <<>>, submissions |-> <<>>, slowed |-> s.slowed, slowOverlap |-> FALSE,
                  collected |-> <<>>,
                  armed |-> [shield |-> s.timeouts.shield >= 0, slow |-> s.timeouts.slow >= 0],
                  lastBounce |-> "none", shieldOverlap |-> FALSE,
                  sim |-> [shield |-> SHIELD_DURATION * MS, slow |-> SLOW_MOTION_DURATION * MS,
                           event |-> EVENT_DURATION * MS]]
  /\ ref = MirrorOf(st)
  /\ effectsPending = FALSE
  /\ raf = [tracked |-> st.gameState = "playing", leaked |-> 0, stale |-> FALSE]
  /\ budget = [cost |-> 0, nextId |-> 3]
  /\ last = NoStep @@ [pre |-> st, preTimeouts |-> timeouts]

(***************************************************************************)
(* Steps                                                                   *)
(***************************************************************************)
\* the record of a step: what it did, and the state and timers it started from
Step(info) == info @@ [pre |-> st, preTimeouts |-> timeouts]

\* A handler outside the frame loop enqueued the updates that turn st into
\* st1: React renders and commits them, after running the effects that are
\* still pending.  With nothing to update React does not render.
Commit(st1, t1, c1, h1, info) ==
  IF st1 = st
  THEN /\ UNCHANGED <<st, ref, effectsPending, raf>>
       /\ timeouts' = t1
       /\ clock' = c1
       /\ hist' = h1
       /\ last' = Step(info)
  ELSE LET e == PendingEffects(st, ref, c1, raf)
       IN /\ st' = ApplyEffectUpdates(st1, e)
          /\ ref' = e.ref
          /\ effectsPending' = (st' # st)
          /\ timeouts' = t1
          /\ clock' = e.clock
          /\ raf' = e.raf
          /\ hist' = LevelAdvances(h1, e)
          /\ last' = Step([info EXCEPT !.level = e.level, !.scored = e.scored, !.flushed = effectsPending,
                                     !.evalAfter = e.evalAfter])

(***************************************************************************)
(* startGame (App.tsx 603-663)                                             *)
(***************************************************************************)
\* a variant of the start of a run that leaves the timers running
ClearTimersNone(pending) == pending

\* if (shieldTimeoutRef.current) clearTimeout(...); if (slowTimeoutRef.current)
\* clearTimeout(...) (lines 604-605)
ClearTimers(pending) == [pending EXCEPT !.shield = -1, !.slow = -1]

startGame(r) ==
  LET first == generateObstacle(budget.nextId, ref.currentLevelIndex, ref.score,
                                StormFactor(ref.isEventActive, ref.activeEventType),
                                BeatFactor(ref.beatActive), r, r, r, r)
  IN /\ budget' = [budget EXCEPT !.cost = @ + 1, !.nextId = @ + 1]
     /\ Commit([FreshState EXCEPT !.gameState = "playing",
                                  !.speedMultiplier = st.speedMultiplier,
                                  !.obstacles = <<first>>],
               ClearTimers(timeouts),
               [clock EXCEPT !.sinceBeat = BEAT_REFRACTORY * MS + 1],
               [hist EXCEPT !.advances = <<>>, !.submissions = <<>>, !.slowed = <<>>, !.slowOverlap = FALSE,
                            !.collected = <<>>, !.armed = [shield |-> FALSE, slow |-> FALSE],
                            !.lastBounce = "none", !.shieldOverlap = FALSE],
               [NoStep EXCEPT !.op = "startGame"])

(***************************************************************************)
(* toggleGravity (App.tsx 592-601)                                         *)
(***************************************************************************)
toggleGravity ==
  IF ref.gameState # "playing"
  THEN /\ UNCHANGED <<st, ref, effectsPending, timeouts, clock, raf, hist>>
       /\ budget' = [budget EXCEPT !.cost = @ + 1]
       /\ last' = Step([NoStep EXCEPT !.op = "toggleGravity"])
  ELSE /\ budget' = [budget EXCEPT !.cost = @ + 1]
       /\ Commit([st EXCEPT !.gravityDir = -@,
                            !.particles = createParticles(@, 8, IF ref.gravityDir = 1 THEN "pink" ELSE "blue")],
                 timeouts, clock, [hist EXCEPT !.lastBounce = "none"],
                 [NoStep EXCEPT !.op = "toggleGravity", !.ran = TRUE, !.flips = 1])

(***************************************************************************)
(* handleGameAction (App.tsx 665-671): SPACE, click or touch               *)
(***************************************************************************)
handleGameAction ==
  /\ budget.cost < MaxCost
  /\ IF ref.gameState = "menu" \/ ref.gameState = "gameOver"
     THEN \E r \in RandSamples : startGame(r)
     ELSE toggleGravity

(***************************************************************************)
(* The speed slider (App.tsx 1358-1373), rendered in the menu only         *)
(***************************************************************************)
SpeedSamples == {80, 100, 150}

SetSpeedMultiplier ==
  /\ st.gameState = "menu"
  /\ budget.cost < MaxCost
  /\ \E v \in SpeedSamples \ {st.speedMultiplier} :
       /\ budget' = [budget EXCEPT !.cost = @ + 1]
       /\ Commit([st EXCEPT !.speedMultiplier = v], timeouts, clock, hist,
                 [NoStep EXCEPT !.op = "setSpeedMultiplier"])

(***************************************************************************)
(* The auth effect (App.tsx 685-735) sets db, userId or isAuthReady: the    *)
(* render creates a new gameLoop (dependencies, lines 1101-1107) and the    *)
(* loop effect, which depends on it, runs again with the next flush.  The   *)
(* auth state settles once, early: before the behaviour has used any of its *)
(* length.                                                                  *)
(***************************************************************************)
RecreateGameLoop ==
  /\ budget.cost = 0
  /\ ~raf.stale
  /\ LET e == PendingEffects(st, ref, clock, raf)
     IN /\ st' = ApplyEffectUpdates(st, e)
        /\ ref' = e.ref
        /\ effectsPending' = TRUE
        /\ clock' = e.clock
        /\ raf' = [e.raf EXCEPT !.stale = TRUE]
        /\ hist' = LevelAdvances(hist, e)
        /\ last' = Step([NoStep EXCEPT !.op = "authStateChanged", !.level = e.level, !.scored = e.scored,
                                         !.flushed = effectsPending, !.evalAfter = e.evalAfter])
  /\ budget' = [budget EXCEPT !.cost = @ + 1]
  /\ UNCHANGED timeouts

(***************************************************************************)
(* setTimeout callbacks                                                    *)
(***************************************************************************)
RemoveAt(s, i) == SubSeq(s, 1, i - 1) \o SubSeq(s, i + 1, Len(s))

\* a variant of the pickup that leaves a pending timer running
ArmTimerKeep(pending, duration) == IF pending >= 0 THEN pending ELSE duration * MS

\* if (ref.current) clearTimeout(ref.current); ref.current = setTimeout(..., duration)
\* (App.tsx 856-857 and 865-866): the time left of the one tracked timer
ArmTimer(pending, duration) == duration * MS

\* the shield timer of collectPowerUps (App.tsx 857-859)
ShieldTimeout ==
  /\ timeouts.shield = 0
  /\ UNCHANGED budget
  /\ Commit([st EXCEPT !.invulnerable = FALSE], [timeouts EXCEPT !.shield = -1], clock, hist,
            [NoStep EXCEPT !.op = "shieldTimeout"])

\* the slow timer of collectPowerUps (App.tsx 866-870)
SlowTimeout ==
  /\ timeouts.slow = 0
  /\ UNCHANGED budget
  /\ Commit([st EXCEPT !.obstacles = RestoreObstacles(@)], [timeouts EXCEPT !.slow = -1], clock, hist,
            [NoStep EXCEPT !.op = "slowTimeout"])

\* the expiry timer of triggerRandomEvent (App.tsx 794-797)
EventTimeout ==
  \E i \in 1..Len(timeouts.event) :
    /\ timeouts.event[i] = 0
    /\ UNCHANGED budget
    /\ Commit([st EXCEPT !.isEventActive = FALSE, !.activeEventType = "null"],
              [timeouts EXCEPT !.event = RemoveAt(@, i)], clock, hist,
              [NoStep EXCEPT !.op = "eventTimeout"])

\* the timer of detectBeat (App.tsx 942)
BeatTimeout ==
  \E i \in 1..Len(timeouts.beat) :
    /\ timeouts.beat[i] = 0
    /\ UNCHANGED budget
    /\ Commit([st EXCEPT !.beatActive = FALSE], [timeouts EXCEPT !.beat = RemoveAt(@, i)], clock, hist,
              [NoStep EXCEPT !.op = "beatTimeout"])

(***************************************************************************)
(* React's scheduler runs the pending passive effects                      *)
(***************************************************************************)
FlushEffects ==
  /\ effectsPending
  /\ LET e == Effects(st, ref, clock, raf)
     IN /\ st' = ApplyEffectUpdates(st, e)
        /\ ref' = e.ref
        /\ effectsPending' = (st' # st)
        /\ clock' = e.clock
        /\ raf' = e.raf
        /\ hist' = LevelAdvances(hist, e)
        /\ last' = Step([NoStep EXCEPT !.op = "flushEffects", !.level = e.level, !.scored = e.scored,
                                         !.flushed = TRUE, !.evalAfter = e.evalAfter])
  /\ UNCHANGED <<timeouts, budget>>

(***************************************************************************)
(* Wall-clock time passes                                                  *)
(***************************************************************************)
PendingTimes == {timeouts.shield, timeouts.slow} \cup {timeouts.event[i] : i \in 1..Len(timeouts.event)}
                  \cup {timeouts.beat[i] : i \in 1..Len(timeouts.beat)}

RECURSIVE MinOf(_)
MinOf(S) == LET x == CHOOSE y \in S : TRUE IN IF S = {x} THEN x ELSE Min(x, MinOf(S \ {x}))

Later(t, d) == IF t < 0 THEN t ELSE t - d

\* d of wall-clock time passes, or less when a timer is due before: a due
\* timer runs before more time passes.  The short wait is the wait for the
\* next frame.
Elapse ==
  \E d \in ElapseSamples :
    LET due == {t \in PendingTimes : t >= 0}
        dd == IF due = {} THEN d ELSE Min(d, MinOf(due))
        long == d = LongWait * MS
    IN /\ 0 \notin due
       /\ IF long THEN budget.cost < MaxCost
          ELSE (raf.tracked \/ raf.leaked > 0) /\ clock.sincePrev < FRAME_INTERVAL
       /\ timeouts' = [shield |-> Later(timeouts.shield, dd), slow |-> Later(timeouts.slow, dd),
                       event |-> [i \in 1..Len(timeouts.event) |-> Later(timeouts.event[i], dd)],
                       beat |-> [i \in 1..Len(timeouts.beat) |-> Later(timeouts.beat[i], dd)]]
       /\ clock' = [sincePrev |-> Min(2 * FRAME_INTERVAL, clock.sincePrev + dd),
                    sinceScore |-> Min(ClockCap, clock.sinceScore + dd),
                    sinceBeat |-> Min(BEAT_REFRACTORY * MS + 1, clock.sinceBeat + dd),
                    sinceShield |-> Min(SHIELD_DURATION * MS, clock.sinceShield + dd),
                    sinceEvent |-> Min(EVENT_DURATION * MS, clock.sinceEvent + dd)]
       /\ (timeouts' # timeouts \/ clock' # clock)
       /\ budget' = [budget EXCEPT !.cost = IF long THEN @ + 1 ELSE @]
       /\ last' = Step([NoStep EXCEPT !.op = "elapse"])
       /\ UNCHANGED <<st, ref, effectsPending, raf, hist>>

(***************************************************************************)
(* gameLoop (App.tsx 947-1108): one requestAnimationFrame callback, and    *)
(* the render that commits its updates.                                    *)
(***************************************************************************)
\* updated.position.x -= ... writes through the position object that the
\* copy { ...obs } shares with the obstacle obstaclesRef holds: the ref sees
\* the new position of every obstacle the updater moved
AliasPositions(refObstacles, moved) ==
  [i \in 1..Len(refObstacles) |->
     IF \E j \in 1..Len(moved) : moved[j].id = refObstacles[i].id
     THEN [refObstacles[i] EXCEPT
             !.position = moved[CHOOSE j \in 1..Len(moved) : moved[j].id = refObstacles[i].id].position]
     ELSE refObstacles[i]]

Uncollected(p) == ~p.collected

\* the record of a slow pickup: the speed of each live obstacle just before
\* the pickup's setObstacles updater damps it
SpeedsOf(obstacles) == [i \in 1..Len(obstacles) |-> [id |-> obstacles[i].id, speed |-> obstacles[i].speed]]

\* the record of a pickup: the pulse of each power-up when the updater marks
\* it collected
PulsesOf(powerUps) == [i \in 1..Len(powerUps) |-> [id |-> powerUps[i].id, pulse |-> powerUps[i].pulse]]

\* the obstacles appended by the spawn updater (lines 1050-1059)
SpawnedObstacles(os, r1, r) ==
  IF os = "single"
  THEN <<generateObstacle(budget.nextId, r1.currentLevelIndex, r1.score,
                          StormFactor(r1.isEventActive, r1.activeEventType),
                          BeatFactor(r1.beatActive), r, r, r, r)>>
  ELSE IF os = "pattern"
  THEN generateObstaclePattern(budget.nextId, r1.currentLevelIndex, r1.score,
                               StormFactor(r1.isEventActive, r1.activeEventType),
                               BeatFactor(r1.beatActive), r, r, r)
  ELSE <<>>

\* dynamicObstacleChance * effectiveDeltaRatio, in 1/100000000
ObstacleChance(r, dt) ==
  ((Level(r.currentLevelIndex).obstacleBaseChance * r.spawnMultiplier) \div 100 + r.score * 10) * dt

EventDraws == {POSSIBLE_EVENTS[k] : k \in 1..Len(POSSIBLE_EVENTS)}

SpawnDraws == {"single", "pattern"}

PowerUpDraws == {"powerUp"}

\* the callback finds the game not running (lines 949-953)
FrameIdle(which) ==
  /\ ref.gameState # "playing"
  /\ raf' = [raf EXCEPT !.tracked = TRUE, !.leaked = IF which = "leaked" THEN @ - 1 ELSE @]
  /\ last' = Step([NoStep EXCEPT !.op = "gameLoop"])
  /\ UNCHANGED <<st, ref, effectsPending, timeouts, clock, budget, hist>>

\* the tick (lines 955-1099).  draw: the one test of this frame that comes
\* out in favour (detectBeat finds a beat; the event draw is below its chance
\* and chooses this kind; the obstacle draw is below its chance, for a single
\* obstacle or a pattern; the power-up draw is below its chance); r: the
\* value of the other Math.random() draws
FrameTick(which, draw, r) ==
  \* the loop effect stores a timestamp in prevTimeRef before it requests the
  \* first frame (line 1112)
  LET dt == EffectiveDeltaRatio(TimeDelta(TRUE, clock.sincePrev))
      beat == draw = "beat"
      ev == IF draw \in EventDraws THEN draw ELSE "none"
      os == IF draw \in SpawnDraws THEN draw ELSE "none"
      ps == IF draw = "powerUp" THEN draw ELSE "none"
      beatNow == beat /\ clock.sinceBeat > BEAT_REFRACTORY * MS
      phys == Integrate(ref.ballPos.y, ref.ballVel.y, ref.gravityDir, ref.speedMultiplier, dt)
      collisionCheckPos == [x |-> ref.ballPos.x, y |-> phys.posY]
      trigger == /\ ev # "none"
                 /\ ~ref.isEventActive
                 /\ Level(ref.currentLevelIndex).eventProbability * dt > 0
      levelConfig == Level(ref.currentLevelIndex)
      spawnObstacle == /\ os # "none"
                       /\ ObstacleChance(ref, dt) > 0
                       /\ Len(ref.obstacles) < levelConfig.obstacleMax
      spawnPowerUp == /\ ps # "none"
                      /\ levelConfig.powerUpChance * dt > 0
                      /\ Len(SelectSeq(ref.powerUps, Uncollected)) < 2
      collided == checkObstacleCollisions(collisionCheckPos, ref.obstacles, ref.invulnerable)
      \* requestRef.current = requestAnimationFrame(gameLoop), line 1099
      rafCb == [raf EXCEPT !.tracked = TRUE,
                           !.leaked = IF which = "leaked" THEN @ - 1 + (IF raf.tracked THEN 1 ELSE 0)
                                      ELSE @]
      clockCb == [clock EXCEPT !.sincePrev = 0, !.sinceBeat = IF beatNow THEN 0 ELSE @]
      \* the pending effects run before React renders the updates
      e == PendingEffects(st, ref, clockCb, rafCb)
      r1 == e.ref
      \* the updaters, in the order of their setState calls
      moved == AdvanceObstacles(st.obstacles, dt, StormFactor(r1.isEventActive, r1.activeEventType),
                                BeatFactor(r1.beatActive))
      spawned == IF spawnObstacle THEN SpawnedObstacles(os, r1, r) ELSE <<>>
      powerUps1 == AdvancePowerUps(st.powerUps, dt)
                     \o (IF spawnPowerUp
                         THEN <<generatePowerUp(budget.nextId + Len(spawned), r, r)>>
                         ELSE <<>>)
      got == collectPowerUps(powerUps1, r1.ballPos)
      particles1 == DecayParticles(IF phys.bounce # "none"
                                   THEN createParticles(st.particles, 12, IF phys.bounce = "top" THEN "cyan" ELSE "magenta")
                                   ELSE st.particles, dt)
      particles2 == IF collided THEN createParticles(particles1, 30, "red") ELSE particles1
      particles3 == IF e.level >= 0 THEN createParticles(particles2, 30, "gold") ELSE particles2
      st1 == [gameState |-> NextGameState(st.gameState, collided),
              score |-> st.score + ScoreIncrement(dt) + MAGNET_SCORE * got.magnet,
              combo |-> st.combo + ScoreIncrement(dt) + MAGNET_COMBO * got.magnet,
              currentLevelIndex |-> IF e.level >= 0 THEN e.level ELSE st.currentLevelIndex,
              speedMultiplier |-> st.speedMultiplier,
              ballPos |-> collisionCheckPos,
              ballVel |-> [x |-> 0, y |-> phys.velY],
              gravityDir |-> IF phys.flips % 2 = 1 THEN -st.gravityDir ELSE st.gravityDir,
              obstacles |-> SlowObstacles(PruneObstacles(moved) \o spawned, got.slow),
              powerUps |-> got.powerUps,
              particles |-> AddBursts(particles3, got.shield + got.slow + got.magnet, 15, "green"),
              invulnerable |-> IF got.shield > 0 THEN TRUE ELSE st.invulnerable,
              isEventActive |-> IF trigger THEN TRUE ELSE st.isEventActive,
              activeEventType |-> IF trigger THEN ev ELSE st.activeEventType,
              spawnMultiplier |-> AdjustSpawnMultiplier(st.spawnMultiplier, e.mult),
              beatActive |-> IF beatNow THEN TRUE ELSE st.beatActive]
      \* the time this tick simulates: effectiveDeltaRatio reference frames
      simulated == (dt * FRAME_INTERVAL) \div 100
      cost == 1 + (IF draw # "none" THEN 1 ELSE 0)
                + (IF clock.sincePrev < FRAME_INTERVAL THEN 1 ELSE 0)
  IN /\ ref.gameState = "playing"
     /\ budget.cost + cost <= MaxCost
     \* an input that the code ignores is no different input
     /\ beat = beatNow /\ (ev # "none") = trigger
     /\ (os # "none") = spawnObstacle /\ (ps # "none") = spawnPowerUp
     /\ st' = st1
     /\ ref' = [r1 EXCEPT !.obstacles = AliasPositions(@, moved)]
     /\ effectsPending' = TRUE
     /\ timeouts' = [shield |-> IF got.shield > 0 THEN ArmTimer(timeouts.shield, SHIELD_DURATION)
                                ELSE timeouts.shield,
                     slow |-> IF got.slow > 0 THEN ArmTimer(timeouts.slow, SLOW_MOTION_DURATION)
                              ELSE timeouts.slow,
                     event |-> IF trigger THEN Append(timeouts.event, EVENT_DURATION * MS) ELSE timeouts.event,
                     beat |-> IF beatNow THEN Append(timeouts.beat, BEAT_DURATION * MS) ELSE timeouts.beat]
     /\ clock' = [e.clock EXCEPT !.sinceShield = IF got.shield > 0 THEN 0 ELSE @,
                                 !.sinceEvent = IF trigger THEN 0 ELSE @]
     /\ raf' = e.raf
     /\ budget' = [budget EXCEPT !.cost = @ + cost,
                                 !.nextId = @ + Len(spawned) + (IF spawnPowerUp THEN 1 ELSE 0)]
     /\ hist' = [LevelAdvances(hist, e) EXCEPT
                   !.submissions = IF collided THEN Append(@, ref.score + 1) ELSE @,
                   !.slowed = IF got.slow > 0 THEN SpeedsOf(PruneObstacles(moved) \o spawned) ELSE @,
                   !.slowOverlap = IF got.slow > 0 THEN got.slow > 1 \/ timeouts.slow >= 0 ELSE @,
                   !.armed = [shield |-> @.shield \/ got.shield > 0, slow |-> @.slow \/ got.slow > 0],
                   !.collected = @ \o PulsesOf(SelectSeq(powerUps1, LAMBDA p : PickedUp(r1.ballPos, p))),
                   !.lastBounce = IF phys.bounce # "none" THEN phys.bounce ELSE @,
                   !.shieldOverlap = IF got.shield > 0 THEN timeouts.shield >= 0 ELSE @,
                   !.sim = [shield |-> IF got.shield > 0 THEN 0 ELSE Min(SHIELD_DURATION * MS, @.shield + simulated),
                            slow |-> IF got.slow > 0 THEN 0 ELSE Min(SLOW_MOTION_DURATION * MS, @.slow + simulated),
                            event |-> IF trigger THEN 0 ELSE Min(EVENT_DURATION * MS, @.event + simulated)]]
     /\ last' = Step([op |-> "gameLoop", ran |-> TRUE, timeDelta |-> clock.sincePrev, dt |-> dt, bounce |-> phys.bounce,
                      flips |-> phys.flips, collided |-> collided,
                      overlap |-> checkObstacleCollisions(collisionCheckPos, st.obstacles, FALSE),
                      pickupPos |-> r1.ballPos, scored |-> e.scored, shield |-> got.shield,
                      slow |-> got.slow, magnet |-> got.magnet,
                      triggered |-> IF trigger THEN ev ELSE "none", level |-> e.level,
                      submitted |-> IF collided THEN ref.score + 1 ELSE -1,
                      flushed |-> effectsPending, prevBounce |-> hist.lastBounce,
                      read |-> [y |-> ref.ballPos.y, v |-> ref.ballVel.y, g |-> ref.gravityDir,
                                sm |-> ref.speedMultiplier],
                      evalAfter |-> e.evalAfter])

gameLoop ==
  \E which \in {"tracked", "leaked"} :
    /\ IF which = "tracked" THEN raf.tracked ELSE raf.leaked > 0
    /\ \/ FrameIdle(which)
       \/ \E draw \in {"none", "beat"} \cup EventDraws \cup SpawnDraws \cup PowerUpDraws, r \in RandSamples :
            FrameTick(which, draw, r)

(***************************************************************************)
(* The specification                                                       *)
(***************************************************************************)
Next ==
  \/ handleGameAction
  \/ SetSpeedMultiplier
  \/ RecreateGameLoop
  \/ gameLoop
  \/ FlushEffects
  \/ ShieldTimeout
  \/ SlowTimeout
  \/ EventTimeout
  \/ BeatTimeout
  \/ Elapse

Spec == Init /\ [][Next]_vars

(***************************************************************************)
(* Properties                                                              *)
(***************************************************************************)
\* the state is the one a gameLoop callback that ran the tick body committed
AfterTick == last.op = "gameLoop" /\ last.ran

\* the uncollected power-ups of a kind that the tick's advance brought within
\* the pickup radius of the position the pickup test read
InReach(type) ==
  {j \in 1..Len(last.pre.powerUps) :
     /\ last.pre.powerUps[j].type = type
     /\ ~last.pre.powerUps[j].collected
     /\ WithinPickupRadius(last.pickupPos, AdvancePowerUp(last.pre.powerUps[j], last.dt))}

\* the power-up of the state before the step is now marked collected
NowCollected(j) ==
  \E i \in 1..Len(st.powerUps) :
    st.powerUps[i].id = last.pre.powerUps[j].id /\ st.powerUps[i].collected

\* the bursts of the tier celebration that have not decayed yet
FullGold(particles) ==
  Cardinality({k \in 1..Len(particles) :
                 particles[k].color = "gold" /\ particles[k].count = 30 /\ particles[k].life = 1000})

\* C1: in every tick executed while the body is shielded (the shield flag
\* is set from the pickup until the shield timer clears it) the game state
\* does not go from playing to gameOver, whatever the body overlaps.
C1_ShieldedTickNotFatal ==
  (AfterTick /\ last.pre.invulnerable)
    => ~(last.pre.gameState = "playing" /\ st.gameState = "gameOver")

\* C2: a tick of a running game that finds the unshielded body overlapping a
\* live obstacle sets the game state to gameOver and emits the collision
\* feedback (the 30-particle burst), and a tick enters gameOver only then.
C2_FatalIffUnshieldedOverlap ==
  (AfterTick /\ last.pre.gameState = "playing")
    => ((last.overlap /\ ~last.pre.invulnerable)
          <=> (st.gameState = "gameOver" /\ last.collided
                 /\ \E k \in 1..Len(st.particles) :
                      st.particles[k].color = "red" /\ st.particles[k].count = 30))

\* C3: in every reachable state the magnitude of the body's vertical
\* velocity is at most MAX_VELOCITY * speedMultiplier, also right after a
\* bounce and after a gravity inversion.
C3_VelocityBounded ==
  /\ Abs(st.ballVel.y) * 100 <= MAX_VELOCITY * PX * st.speedMultiplier
  /\ Abs(ref.ballVel.y) * 100 <= MAX_VELOCITY * PX * st.speedMultiplier

\* a tick at the highest speed scale has bounced the body off a boundary
C3_Witness == AfterTick /\ last.bounce # "none" /\ st.speedMultiplier = 150 /\ st.ballVel.y # 0

\* C4: one tick takes at most one of the two bounce branches; a bounce
\* negates the gravity direction exactly once in that tick, and a tick
\* without a bounce leaves the gravity direction as it was.
C4_OneFlipPerBounce ==
  AfterTick =>
    /\ last.bounce \in {"none", "top", "bottom"}
    /\ last.flips = (IF last.bounce = "none" THEN 0 ELSE 1)
    /\ st.gravityDir = (IF last.bounce = "none" THEN last.pre.gravityDir ELSE -last.pre.gravityDir)
    /\ last.bounce = "top" => st.ballPos.y = BALL_RADIUS * PX /\ st.ballVel.y >= 0
    /\ last.bounce = "bottom" => st.ballPos.y = (CANVAS_HEIGHT - BALL_RADIUS) * PX /\ st.ballVel.y <= 0

\* a tick has bounced the body off the top boundary and turned gravity down
C4_Witness == AfterTick /\ last.bounce = "top" /\ last.flips = 1 /\ st.gravityDir = 1

\* C5: from a start_run to the end of that run the tier index never
\* decreases, whatever ticks, pickups, timers and inputs occur.
C5_TierNeverDecreases ==
  last.op # "startGame" => st.currentLevelIndex >= last.pre.currentLevelIndex

\* a run that was in tier 0 has advanced twice and is in tier 2
C5_Witness == st.gameState = "playing" /\ hist.advances = <<1, 2>> /\ st.currentLevelIndex = 2

\* C6: a run advances to each tier at most once, one tier at a time; every
\* advance fires exactly one 30-particle burst and no step without an
\* advance fires one, also when the score changes again at or above the
\* threshold that was reached.
C6_AdvanceOncePerTier ==
  /\ \A i, j \in 1..Len(hist.advances) : i < j => hist.advances[i] < hist.advances[j]
  /\ last.level >= 0 => last.level = last.pre.currentLevelIndex + 1 /\ st.currentLevelIndex = last.level
  /\ FullGold(st.particles)
       = (IF AfterTick \/ last.op = "startGame" THEN 0 ELSE FullGold(last.pre.particles))
           + (IF last.level >= 0 THEN 1 ELSE 0)

\* the level-advance effect has run for a score change of a run that had
\* advanced before, with the score at or above the threshold of its tier,
\* and has not fired
C6_Witness ==
  /\ Len(hist.advances) > 0 /\ st.currentLevelIndex > 0
  /\ last.scored /\ last.level = -1
  /\ st.score >= Level(st.currentLevelIndex).thresholdScore

\* C7: a tick that runs while an event is active starts no event: it leaves
\* the kind of the active event and the pending expiry timers as they were.
C7_NoTriggerWhileActive ==
  (AfterTick /\ last.pre.isEventActive)
    => /\ last.triggered = "none"
       /\ st.activeEventType = last.pre.activeEventType
       /\ timeouts.event = last.preTimeouts.event

\* the obstacle of the state and the record of the slow pickup are the same obstacle
SlowedPairs ==
  {<<i, k>> \in (1..Len(st.obstacles)) \X (1..Len(hist.slowed)) : st.obstacles[i].id = hist.slowed[k].id}

\* C8 as stated: when the window of a slow pickup that no other slow pickup
\* overlapped expires, every obstacle that was live at the pickup and is
\* still live has exactly the speed it had just before the pickup.
C8_SpeedRestoredExactly ==
  (last.op = "slowTimeout" /\ ~hist.slowOverlap)
    => \A pair \in SlowedPairs : st.obstacles[pair[1]].speed = hist.slowed[pair[2]].speed

\* C8 amended: the speed after the expiry is the speed before the pickup up
\* to the rounding of the product by 0.6 and of the quotient by 0.6 (one
\* unit of the representation); a second damping or a missing restoration
\* is excluded.
C8_SpeedRestoredWithinRounding ==
  (last.op = "slowTimeout" /\ ~hist.slowOverlap)
    => \A pair \in SlowedPairs : Abs(st.obstacles[pair[1]].speed - hist.slowed[pair[2]].speed) <= 1

\* the window of a slow pickup has expired with an obstacle of the pickup still live
C8_Witness == last.op = "slowTimeout" /\ ~hist.slowOverlap /\ SlowedPairs # {}

\* C9 as stated: a tick with an uncollected magnet within the pickup radius
\* raises the score by exactly 500 and the combo by exactly 5.
C9_MagnetAddsExactly500 ==
  (AfterTick /\ InReach("magnet") # {})
    => st.score = last.pre.score + MAGNET_SCORE /\ st.combo = last.pre.combo + MAGNET_COMBO

\* C9 amended: a tick with uncollected magnets within the pickup radius
\* raises the score by 500 and the combo by 5 for each of them, on top of the
\* tick's own round(dt); the magnets become collected; no timer is armed and
\* the shield flag is unchanged unless a shield or slow was picked up too.
C9_MagnetBonusPerMagnet ==
  (AfterTick /\ InReach("magnet") # {})
    => /\ st.score = last.pre.score + MAGNET_SCORE * Cardinality(InReach("magnet")) + Round100(last.dt)
       /\ st.combo = last.pre.combo + MAGNET_COMBO * Cardinality(InReach("magnet")) + Round100(last.dt)
       /\ \A j \in InReach("magnet") : NowCollected(j)
       /\ InReach("shield") = {} =>
            timeouts.shield = last.preTimeouts.shield /\ st.invulnerable = last.pre.invulnerable
       /\ InReach("slow") = {} => timeouts.slow = last.preTimeouts.slow

\* a tick at dt = 1 has picked up a magnet
C9_Witness == AfterTick /\ InReach("magnet") # {} /\ last.dt = 100 /\ last.magnet > 0

\* C10: a tick uses dt = clamp(realDt / 16.66, 0.1, 2) and adds round(dt),
\* which is 0, 1 or 2, to the score and to the combo (a magnet bonus comes on
\* top); no step of a run other than a tick changes them, so they never
\* decrease; 100 ticks at realDt = 16.66 add exactly 100.
C10_TickAddsRoundDt ==
  /\ AfterTick =>
       /\ last.dt = Min(200, Max(10, (last.timeDelta * 100) \div FRAME_INTERVAL))
       /\ Round100(last.dt) \in {0, 1, 2}
       /\ st.score = last.pre.score + Round100(last.dt) + MAGNET_SCORE * Cardinality(InReach("magnet"))
       /\ st.combo = last.pre.combo + Round100(last.dt) + MAGNET_COMBO * Cardinality(InReach("magnet"))
  /\ last.op \notin {"gameLoop", "startGame"} =>
       st.score = last.pre.score /\ st.combo = last.pre.combo
  /\ last.op # "startGame" => st.score >= last.pre.score /\ st.combo >= last.pre.combo
  /\ SumSeq([i \in 1..100 |-> ScoreIncrement(EffectiveDeltaRatio(FRAME_INTERVAL))]) = 100

\* a tick that came two reference frames after the previous one has added 2
C10_Witness == AfterTick /\ last.dt = 200 /\ st.score = last.pre.score + 2

\* C11: with no gravity inversion by the player since the previous bounce of
\* the run, a tick that bounces the body bounces it off the other boundary
\* than the previous bounce did: consecutive bounces alternate.
C11_BouncesAlternate ==
  (AfterTick /\ last.bounce # "none" /\ last.prevBounce # "none") => last.bounce # last.prevBounce

\* C12: right after startGame the run is playing with score 0, combo 0, tier
\* 0, gravity +1, the body at rest at (100, CANVAS_HEIGHT / 2), no power-ups,
\* no particles, no shield, no event and spawn multiplier 1, whatever the
\* run before left behind.
C12_StartResetsRun ==
  last.op = "startGame" =>
    /\ st.gameState = "playing" /\ st.score = 0 /\ st.combo = 0 /\ st.currentLevelIndex = 0
    /\ st.gravityDir = 1 /\ st.ballVel = [x |-> 0, y |-> 0]
    /\ st.ballPos = [x |-> 100 * PX, y |-> (CANVAS_HEIGHT \div 2) * PX]
    /\ st.powerUps = <<>> /\ st.particles = <<>> /\ ~st.invulnerable
    /\ ~st.isEventActive /\ st.activeEventType = "null" /\ st.spawnMultiplier = 100

\* C13: toggleGravity invoked while the game is not playing changes nothing
\* (gravity direction, body, score, particles); invoked while playing it
\* negates the gravity direction once and leaves velocity, position, score,
\* obstacles and power-ups as they were.
C13_ToggleOnlyWhilePlaying ==
  last.op = "toggleGravity" =>
    IF last.pre.gameState # "playing"
    THEN /\ st.gravityDir = last.pre.gravityDir /\ st.ballPos = last.pre.ballPos
         /\ st.ballVel = last.pre.ballVel /\ st.score = last.pre.score
         /\ st.particles = last.pre.particles
    ELSE /\ st.gravityDir = -last.pre.gravityDir /\ st.ballPos = last.pre.ballPos
         /\ st.ballVel = last.pre.ballVel /\ st.score = last.pre.score
         /\ st.obstacles = last.pre.obstacles /\ st.powerUps = last.pre.powerUps

\* C14: a gameLoop callback invoked while the game state is menu or gameOver
\* leaves body, obstacles, power-ups, particles, score, combo, tier, shield
\* and event state as they were.
C14_IdleFrameChangesNothing ==
  (last.op = "gameLoop" /\ last.pre.gameState # "playing") =>
    /\ st.ballPos = last.pre.ballPos /\ st.ballVel = last.pre.ballVel
    /\ st.gravityDir = last.pre.gravityDir /\ st.obstacles = last.pre.obstacles
    /\ st.powerUps = last.pre.powerUps /\ st.particles = last.pre.particles
    /\ st.score = last.pre.score /\ st.combo = last.pre.combo
    /\ st.currentLevelIndex = last.pre.currentLevelIndex
    /\ st.invulnerable = last.pre.invulnerable
    /\ st.isEventActive = last.pre.isEventActive /\ st.activeEventType = last.pre.activeEventType

\* C15: the score handed to the persistence collaborator by a fatal tick is
\* the score of the run state once that tick has completed.
C15_SubmittedScoreIsFinalScore ==
  (AfterTick /\ last.collided) => last.submitted = st.score

\* the obstacles of the state after the step that are the obstacle o
SameObstacle(o) == {i \in 1..Len(st.obstacles) : st.obstacles[i].id = o.id}

\* C16: a running tick moves every obstacle it keeps strictly to the left,
\* keeps none at or left of the cutoff x = -150, and removes none that its
\* advance (at most speed * 1.2 * 1.3 * dt) could not have taken to the
\* cutoff; no other step of a run moves or removes an obstacle.  With x
\* falling in every tick and nothing kept at the cutoff, every obstacle is
\* removed after finitely many ticks.
C16_ObstaclesMoveLeftUntilCutoff ==
  /\ (AfterTick /\ last.pre.gameState = "playing") =>
       \A j \in 1..Len(last.pre.obstacles) :
         LET o == last.pre.obstacles[j]
         IN /\ \A i \in SameObstacle(o) :
                 /\ st.obstacles[i].position.x < o.position.x
                 /\ st.obstacles[i].position.x > -150 * PX
            /\ SameObstacle(o) = {} =>
                 o.position.x - (o.speed * 156 * last.dt) \div 10000 - 1 <= -150 * PX
  /\ last.op \notin {"gameLoop", "startGame"} =>
       /\ Len(st.obstacles) = Len(last.pre.obstacles)
       /\ \A j \in 1..Len(st.obstacles) : st.obstacles[j].position = last.pre.obstacles[j].position

\* a tick has kept an obstacle near the cutoff and the next tick removed it
C16_Witness ==
  /\ AfterTick /\ last.pre.gameState = "playing"
  /\ \E j \in 1..Len(last.pre.obstacles) :
       /\ SameObstacle(last.pre.obstacles[j]) = {}
       /\ last.pre.obstacles[j].position.x < -149700

\* the power-ups of the state after the step that are the power-up p
SamePowerUp(p) == {i \in 1..Len(st.powerUps) : st.powerUps[i].id = p.id}

\* C17: a running tick moves every power-up it keeps to the left and raises
\* its pulse; it keeps no uncollected power-up at or left of x = -80 and no
\* power-up that was collected before the tick with its pulse at or above
\* 4 * pi.  With x falling and the pulse rising in every tick, every power-up
\* is removed after finitely many ticks.
C17_PowerUpsPurged ==
  (AfterTick /\ last.pre.gameState = "playing") =>
    \A j \in 1..Len(last.pre.powerUps) :
      LET p == last.pre.powerUps[j]
      IN \A i \in SamePowerUp(p) :
           /\ st.powerUps[i].position.x < p.position.x
           /\ st.powerUps[i].pulse > p.pulse
           /\ ~st.powerUps[i].collected => st.powerUps[i].position.x > -80 * PX
           /\ p.collected => st.powerUps[i].pulse < PULSE_LIMIT

\* a tick has removed a power-up that an earlier tick collected, and an
\* uncollected one at the left cutoff
C17_Witness ==
  /\ AfterTick /\ last.pre.gameState = "playing"
  /\ \E j \in 1..Len(last.pre.powerUps) :
       SamePowerUp(last.pre.powerUps[j]) = {} /\ last.pre.powerUps[j].collected

\* a tick has removed an uncollected power-up that crossed x = -80
C17_WitnessCutoff ==
  /\ AfterTick
  /\ \E j \in 1..Len(last.pre.powerUps) :
       SamePowerUp(last.pre.powerUps[j]) = {} /\ ~last.pre.powerUps[j].collected

\* C18: an event that has been triggered stays active for 4000 ms: apart from
\* startGame no step deactivates an event that was triggered less than
\* 4000 ms before, and an active event has an expiry pending.
C18_EventLastsFullDuration ==
  /\ (last.pre.isEventActive /\ ~st.isEventActive /\ last.op # "startGame")
       => clock.sinceEvent >= EVENT_DURATION * MS
  /\ st.isEventActive => timeouts.event # <<>>

\* C19: from a shield pickup the body stays shielded for SHIELD_DURATION: the
\* expiry is pending exactly that long after the latest pickup, also when an
\* earlier pickup's timer was still running, and apart from startGame no
\* step unshields the body before.
C19_ShieldLastsFullDuration ==
  /\ (last.pre.invulnerable /\ ~st.invulnerable /\ last.op # "startGame")
       => last.op = "shieldTimeout" /\ clock.sinceShield = SHIELD_DURATION * MS
  /\ st.invulnerable
       => timeouts.shield >= 0 /\ clock.sinceShield + timeouts.shield = SHIELD_DURATION * MS

\* the shield of a body that picked a second shield up while the first was
\* running has expired
C19_Witness ==
  last.op = "shieldTimeout" /\ last.pre.invulnerable /\ ~st.invulnerable /\ hist.shieldOverlap

\* C20: a shield, a slow window or an event expires only when the ticks
\* since it began have simulated its duration.
C20_ExpiryOnSimulatedTime ==
  /\ (last.op = "shieldTimeout" /\ last.pre.invulnerable) => hist.sim.shield >= SHIELD_DURATION * MS
  /\ last.op = "slowTimeout" => hist.sim.slow >= SLOW_MOTION_DURATION * MS
  /\ (last.op = "eventTimeout" /\ last.pre.isEventActive) => hist.sim.event >= EVENT_DURATION * MS

\* C21: the game state changes only from menu to playing and from gameOver
\* to playing, by a player action that starts a run, and from playing to
\* gameOver, by a tick that detects a collision; menu is never re-entered; a
\* player action that starts a run does not invert gravity and one that
\* inverts gravity starts no run.
C21_GameStateTransitions ==
  /\ st.gameState # last.pre.gameState =>
       \/ last.pre.gameState \in {"menu", "gameOver"} /\ st.gameState = "playing" /\ last.op = "startGame"
       \/ last.pre.gameState = "playing" /\ st.gameState = "gameOver" /\ AfterTick /\ last.collided
  /\ st.gameState = "menu" => last.pre.gameState = "menu"
  /\ last.op = "startGame" => st.gameState = "playing" /\ st.gravityDir = 1 /\ last.flips = 0
  /\ last.op = "toggleGravity" =>
       st.gameState = last.pre.gameState /\ st.score = last.pre.score /\ st.ballPos = last.pre.ballPos

\* a player action has restarted the game after a run that ended
C21_Witness == last.op = "startGame" /\ last.pre.gameState = "gameOver" /\ st.gameState = "playing"

\* elapsed times between two ticks, 1/100 ms: negative (the frame's timestamp
\* is older than the one the loop effect stored), zero, tiny, a reference
\* frame, two, and a minute
TimeDeltaSamples == {-500, 0, 1, 165, 166, FRAME_INTERVAL, 2 * FRAME_INTERVAL, 2 * FRAME_INTERVAL + 1, 6000000}

\* C22: for every real elapsed time between two ticks, and for the first
\* tick with no previous timestamp, the normalised dt of the tick lies in
\* [0.1, 2.0].
C22_DtWithinClamp ==
  /\ AfterTick => last.dt >= 10 /\ last.dt <= 200
  /\ \A known \in BOOLEAN, elapsed \in TimeDeltaSamples :
       /\ EffectiveDeltaRatio(TimeDelta(known, elapsed)) >= 10
       /\ EffectiveDeltaRatio(TimeDelta(known, elapsed)) <= 200

\* a tick has run with no time elapsed since the previous timestamp and has
\* used dt = 0.1
C22_Witness == AfterTick /\ last.timeDelta = 0 /\ last.dt = 10

\* C23: once the effects have settled, the tier index is the greatest index
\* whose thresholdScore is at most the score.
C23_TierMatchesScore ==
  ~effectsPending =>
    st.currentLevelIndex = Cardinality({i \in 1..Len(LEVELS) : LEVELS[i].thresholdScore <= st.score}) - 1

\* C24: the number of live obstacles never exceeds the obstacleMax of the
\* active tier.
C24_ObstacleCountWithinMax ==
  Len(st.obstacles) <= LEVELS[st.currentLevelIndex + 1].obstacleMax

\* C25: the number of live uncollected power-ups never exceeds 2.
C25_AtMostTwoUncollected ==
  Cardinality({i \in 1..Len(st.powerUps) : ~st.powerUps[i].collected}) <= 2

\* C26: the kind of every live obstacle is one of the allowed kinds of the
\* active tier.
C26_ObstacleKindsAllowed ==
  \A i \in 1..Len(st.obstacles) :
    \E k \in 1..Len(LEVELS[st.currentLevelIndex + 1].allowedObstacleTypes) :
      LEVELS[st.currentLevelIndex + 1].allowedObstacleTypes[k] = st.obstacles[i].type

\* the obstacle was live at the slow pickup
WasSlowed(o) == \E k \in 1..Len(hist.slowed) : hist.slowed[k].id = o.id

\* C27: when the window of a slow pickup that no other slow pickup
\* overlapped expires, an obstacle that was spawned during the window, and so
\* was never damped, keeps the speed it had before the expiry.
C27_OnlyDampedSpeedsRestored ==
  (last.op = "slowTimeout" /\ ~hist.slowOverlap) =>
    \A i \in 1..Len(st.obstacles) :
      ~WasSlowed(st.obstacles[i]) => st.obstacles[i].speed = last.pre.obstacles[i].speed

\* C28: when a second slow was picked up while the window of the first was
\* open, the expiry divides the obstacle speeds by the damping factor twice
\* (up to the rounding of the two divisions).
C28_OverlapRestoresTwice ==
  (last.op = "slowTimeout" /\ hist.slowOverlap) =>
    \A i \in 1..Len(st.obstacles) :
      Abs(st.obstacles[i].speed * 36 - last.pre.obstacles[i].speed * 100) <= 2 * 36

\* C29: a step that starts with the game state gameOver and is not a
\* startGame leaves score, combo, obstacle speeds, shield flag and power-up
\* set as they were.
C29_EndedRunIsFrozen ==
  (last.pre.gameState = "gameOver" /\ last.op # "startGame") =>
    /\ st.score = last.pre.score /\ st.combo = last.pre.combo
    /\ st.invulnerable = last.pre.invulnerable
    /\ st.powerUps = last.pre.powerUps
    /\ Len(st.obstacles) = Len(last.pre.obstacles)
    /\ \A i \in 1..Len(st.obstacles) : st.obstacles[i].speed = last.pre.obstacles[i].speed

\* C30: a run hands its score to the persistence collaborator at most once.
C30_RunEndsOnce ==
  Len(hist.submissions) <= 1

\* the power-ups of a kind that were uncollected before the tick and that the
\* tick marked collected
NewlyCollected(type) ==
  {j \in 1..Len(last.pre.powerUps) :
     /\ last.pre.powerUps[j].type = type
     /\ ~last.pre.powerUps[j].collected
     /\ NowCollected(j)}

\* C31: a tick applies one effect for each power-up it marks collected and
\* none for a power-up that was collected before: the score and the combo
\* grow by the magnet bonus once per newly collected magnet, the shield flag
\* is set and the shield timer armed only by a newly collected shield, the
\* obstacle speeds are damped once per newly collected slow, and a collected
\* power-up stays collected.
C31_EffectOncePerPowerUp ==
  AfterTick =>
    /\ \A j \in 1..Len(last.pre.powerUps), i \in 1..Len(st.powerUps) :
         (last.pre.powerUps[j].collected /\ st.powerUps[i].id = last.pre.powerUps[j].id)
           => st.powerUps[i].collected
    /\ last.shield = Cardinality(NewlyCollected("shield"))
    /\ last.slow = Cardinality(NewlyCollected("slow"))
    /\ last.magnet = Cardinality(NewlyCollected("magnet"))
    /\ st.score = last.pre.score + ScoreIncrement(last.dt) + MAGNET_SCORE * Cardinality(NewlyCollected("magnet"))
    /\ st.combo = last.pre.combo + ScoreIncrement(last.dt) + MAGNET_COMBO * Cardinality(NewlyCollected("magnet"))
    /\ st.invulnerable = (last.pre.invulnerable \/ NewlyCollected("shield") # {})
    /\ NewlyCollected("shield") = {} => timeouts.shield = last.preTimeouts.shield
    /\ NewlyCollected("slow") = {} => timeouts.slow = last.preTimeouts.slow
    /\ \A i \in 1..Len(st.obstacles), k \in 1..Len(last.pre.obstacles) :
         st.obstacles[i].id = last.pre.obstacles[k].id
           => st.obstacles[i].speed
                = SlowObstacles(<<last.pre.obstacles[k]>>, Cardinality(NewlyCollected("slow")))[1].speed

\* a tick has run with a power-up within the pickup radius that an earlier
\* tick had marked collected
C31_Witness ==
  /\ AfterTick
  /\ \E j \in 1..Len(last.pre.powerUps) :
       /\ last.pre.powerUps[j].collected
       /\ WithinPickupRadius(last.pickupPos, AdvancePowerUp(last.pre.powerUps[j], last.dt))

\* C32: a tick removes a collected power-up only when its pulse has grown by
\* the fade-out limit of 4 * pi since the tick that collected it, however
\* late in its life it was collected.
C32_FadeOutFromCollection ==
  AfterTick =>
    \A j \in 1..Len(last.pre.powerUps) :
      (last.pre.powerUps[j].collected /\ SamePowerUp(last.pre.powerUps[j]) = {})
        => \E k \in 1..Len(hist.collected) :
             /\ hist.collected[k].id = last.pre.powerUps[j].id
             /\ AdvancePowerUp(last.pre.powerUps[j], last.dt).pulse - hist.collected[k].pulse >= PULSE_LIMIT

\* the obstacles of the state before the step that are the obstacle o
ObstacleBefore(o) == {k \in 1..Len(last.pre.obstacles) : last.pre.obstacles[k].id = o.id}

\* the speed of an obstacle after n slow pickups
Damped(speed, n) == SlowObstacles(<<[speed |-> speed]>>, n)[1].speed

\* C33: the expiry of an event changes nothing of body, gravity direction,
\* score, combo, tier and obstacles; a tick that activates an event of any
\* kind moves the body as its physics integration says, adds the tick's score
\* and leaves the stored speed of every obstacle alone (a slow pickup apart);
\* a tick moves every obstacle by speed * beat factor * dt, times 1.2 when
\* it began with a storm active and times 1 with any other kind or none, and
\* the speed of an obstacle it generates carries the same factor.
C33_OnlyStormHasNumericEffect ==
  /\ last.op = "eventTimeout" =>
       /\ st.ballPos = last.pre.ballPos /\ st.ballVel = last.pre.ballVel
       /\ st.gravityDir = last.pre.gravityDir
       /\ st.score = last.pre.score /\ st.combo = last.pre.combo
       /\ st.currentLevelIndex = (IF last.level >= 0 THEN last.level ELSE last.pre.currentLevelIndex)
       /\ st.obstacles = last.pre.obstacles
  /\ (AfterTick /\ last.triggered # "none") =>
       LET phys == Integrate(last.read.y, last.read.v, last.read.g, last.read.sm, last.dt)
       IN /\ st.ballPos = [x |-> last.pre.ballPos.x, y |-> phys.posY]
          /\ st.ballVel = [x |-> 0, y |-> phys.velY]
          /\ st.gravityDir = (IF phys.flips % 2 = 1 THEN -last.pre.gravityDir ELSE last.pre.gravityDir)
          /\ st.score = last.pre.score + ScoreIncrement(last.dt) + MAGNET_SCORE * last.magnet
          /\ st.combo = last.pre.combo + ScoreIncrement(last.dt) + MAGNET_COMBO * last.magnet
          /\ st.currentLevelIndex = (IF last.level >= 0 THEN last.level ELSE last.pre.currentLevelIndex)
  /\ AfterTick =>
       LET storm == IF last.pre.isEventActive /\ last.pre.activeEventType = "storm" THEN 12 ELSE 10
           beat == BeatFactor(last.pre.beatActive)
       IN \A i \in 1..Len(st.obstacles) :
            /\ \A k \in ObstacleBefore(st.obstacles[i]) :
                 /\ st.obstacles[i].speed = Damped(last.pre.obstacles[k].speed, last.slow)
                 /\ st.obstacles[i].position.x
                      = last.pre.obstacles[k].position.x
                          - MulDiv(MulDiv(MulDiv(last.pre.obstacles[k].speed, storm, 10), beat, 10), last.dt, 100)
            /\ ObstacleBefore(st.obstacles[i]) = {} =>
                 \E rSpeed \in RandSamples :
                   st.obstacles[i].speed
                     = Damped(MulDiv(MulDiv(ObstacleSpeed(last.pre.currentLevelIndex, last.pre.score, 10, 10, rSpeed),
                                            storm, 10), beat, 10), last.slow)

\* a tick that began with a fog or an invertShock active has moved an obstacle
C33_Witness ==
  /\ AfterTick
  /\ last.pre.isEventActive /\ last.pre.activeEventType \in {"fog", "invertShock"}
  /\ \E i \in 1..Len(st.obstacles) : ObstacleBefore(st.obstacles[i]) # {}

\* C34: the pickup test of a tick reads the body position that the tick's
\* physics integration produced, the position its collision test is given
\* and that the tick commits.
C34_TestsUseIntegratedPosition ==
  AfterTick =>
    /\ st.ballPos.y = Integrate(last.read.y, last.read.v, last.read.g, last.read.sm, last.dt).posY
    /\ last.pickupPos = st.ballPos

\* C35: the spawn multiplier lies in [0.8, 1.5], and every adjustment keeps
\* it there; a step other than a start of a run changes it by at most 0.05;
\* it changes (from 1, for a start of a run) only in a step whose effect flush
\* evaluated the throughput, and every evaluation comes at least 2 seconds
\* after the one before; the tier changes only by the level-advance effect
\* and by the start of a run.
C35_SpawnMultiplierBounded ==
  LET before == IF last.op = "startGame" THEN 100 ELSE last.pre.spawnMultiplier
  IN /\ st.spawnMultiplier \in 80..150
     /\ \A m \in 80..150, dir \in {"up", "down", "none"} :
          /\ AdjustSpawnMultiplier(m, dir) \in 80..150
          /\ Abs(AdjustSpawnMultiplier(m, dir) - m) <= 5
     /\ Abs(st.spawnMultiplier - before) <= 5
     /\ st.spawnMultiplier # before => last.evalAfter >= 0
     /\ last.evalAfter >= 0 => last.evalAfter >= SCORE_EVAL_WINDOW * MS
     /\ st.currentLevelIndex
          = (IF last.level >= 0 THEN last.level
             ELSE IF last.op = "startGame" THEN 0 ELSE last.pre.currentLevelIndex)

\* an evaluation has changed the spawn multiplier
C35_Witness ==
  last.evalAfter >= SCORE_EVAL_WINDOW * MS /\ st.spawnMultiplier # last.pre.spawnMultiplier

\* the squared distance from the centre of the body to the closest point of
\* the obstacle's box is below BALL_RADIUS squared; the two bounds on |dx| and
\* |dy| follow from it and keep the squares within TLC's integers
TouchesBox(pos, obs) ==
  LET closestX == Max(obs.position.x - obs.width \div 2, Min(pos.x, obs.position.x + obs.width \div 2))
      closestY == Max(obs.position.y - obs.height \div 2, Min(pos.y, obs.position.y + obs.height \div 2))
      dx == pos.x - closestX
      dy == pos.y - closestY
  IN /\ Abs(dx) < BALL_RADIUS * PX
     /\ Abs(dy) < BALL_RADIUS * PX
     /\ dx * dx + dy * dy < BALL_RADIUS * BALL_RADIUS * PX * PX

\* obstacles of every kind around a body at (100, 300): clear of it, touching
\* it along an edge, at a corner inside and outside the radius, over it
CollisionSamples ==
  {Obstacle(1, type, x * PX, y * PX, 2500, 0) :
     type \in {"spinner", "crusher", "portal"},
     x \in {60, 67, 68, 69, 75, 100, 125, 128, 130, 131, 132, 133, 137, 138},
     y \in {200, 252, 253, 254, 263, 264, 300, 336, 337, 345, 346, 347, 348, 400}}

CollisionRuleOnSamples ==
  LET pos == [x |-> 100 * PX, y |-> 300 * PX]
  IN \A o1 \in CollisionSamples, invulnerable \in BOOLEAN :
       /\ ObstacleHit(pos, o1, invulnerable) = (~invulnerable /\ TouchesBox(pos, o1))
       /\ checkObstacleCollisions(pos, <<o1>>, invulnerable) = (~invulnerable /\ TouchesBox(pos, o1))
       /\ checkObstacleCollisions(pos, <<>>, invulnerable) = FALSE
       /\ \A o2 \in {Obstacle(2, "spinner", 131 * PX, 300 * PX, 2500, 0),
                      Obstacle(2, "spinner", 300 * PX, 300 * PX, 2500, 0)} :
            checkObstacleCollisions(pos, <<o2, o1>>, invulnerable)
              = (~invulnerable /\ (TouchesBox(pos, o1) \/ TouchesBox(pos, o2)))

\* C36: checkObstacleCollisions is true exactly when the body is not
\* shielded and the squared distance from the body's centre to the closest
\* point of the box of some live obstacle is below BALL_RADIUS squared, with
\* or without the bounding-box rejection: for the sampled obstacles, and in
\* every tick that read the obstacles and the shield flag of the state it
\* began in.
C36_CollisionIffWithinRadius ==
  /\ CollisionRuleOnSamples
  /\ (AfterTick /\ ~last.flushed) =>
       last.collided = (/\ ~last.pre.invulnerable
                        /\ \E k \in 1..Len(last.pre.obstacles) : TouchesBox(st.ballPos, last.pre.obstacles[k]))

\* a tick has found the unshielded body within the radius of an obstacle
C36_Witness ==
  /\ AfterTick /\ ~last.flushed /\ last.collided
  /\ \E k \in 1..Len(last.pre.obstacles) : TouchesBox(st.ballPos, last.pre.obstacles[k])

\* the heights the body may be at
BodyRange == (BALL_RADIUS * PX)..((CANVAS_HEIGHT - BALL_RADIUS) * PX)

\* one integration step from sampled heights of the range and velocities
\* within the cap, for both gravity directions and every speed scale and dt
IntegrateKeepsRange ==
  \A y \in {12000, 12001, 13000, 20000, 300000, 580000, 587000, 587999, 588000},
     sm \in SpeedSamples, g \in {-1, 1}, dt \in {10, 50, 100, 200} :
    \A v \in {-MaxVel(sm), -6400, -1, 0, 1, 6400, MaxVel(sm)} :
      Integrate(y, v, g, sm, dt).posY \in BodyRange

\* C37: the body's y lies in [BALL_RADIUS, CANVAS_HEIGHT - BALL_RADIUS], its
\* x is 100 and its horizontal velocity 0 in every reachable state, and an
\* integration step from a height in the range ends in the range.
C37_BodyStaysInField ==
  /\ st.ballPos.y \in BodyRange
  /\ st.ballPos.x = 100 * PX
  /\ st.ballVel.x = 0
  /\ IntegrateKeepsRange

\* a tick has bounced the body off the bottom boundary and left it on it
C37_Witness ==
  AfterTick /\ last.bounce = "bottom" /\ st.ballPos.y = (CANVAS_HEIGHT - BALL_RADIUS) * PX

\* the gameLoop callbacks that requestAnimationFrame holds
PendingFrames == (IF raf.tracked THEN 1 ELSE 0) + raf.leaked

\* C38: at most one gameLoop callback is pending at any time, and none once
\* the effects of a commit that left the game not running have run.
C38_OneFramePending ==
  /\ PendingFrames <= 1
  /\ (~effectsPending /\ st.gameState # "playing") => PendingFrames = 0

\* the loop effect has requested the first frame of a run that startGame
\* started
C38_Witness ==
  /\ last.op = "flushEffects" /\ st.gameState = "playing" /\ st.score = 0
  /\ PendingFrames = 1
  /\ Len(st.obstacles) = 1 /\ st.obstacles[1].id >= 3

\* C39: a start of a run leaves no shield and no slow timer pending; a
\* pending shield or slow timer was armed by a pickup of the current run, and
\* so was one that fires.
C39_TimersDieWithTheirRun ==
  /\ last.op = "startGame" => timeouts.shield = -1 /\ timeouts.slow = -1
  /\ timeouts.shield >= 0 => hist.armed.shield
  /\ timeouts.slow >= 0 => hist.armed.slow
  /\ last.op = "shieldTimeout" => hist.armed.shield
  /\ last.op = "slowTimeout" => hist.armed.slow

\* a start of a run has cancelled a timer that the run before had armed
C39_Witness ==
  /\ last.op = "startGame"
  /\ last.preTimeouts.shield >= 0 \/ last.preTimeouts.slow >= 0
  /\ timeouts.shield = -1 /\ timeouts.slow = -1

====
